---- MODULE Spec2Model ----
(***************************************************************************)
(* A model of the multi-user to-do list: the REST backend (registration,   *)
(* JWT sessions, per-user task CRUD over a relational store) and the       *)
(* browser client's UI controller (DOM listener lifecycle).                *)
(*                                                                         *)
(* Text is modelled as a sequence of one-character strings, so that trim,  *)
(* the e-mail pattern and length checks are computed, not assumed.         *)
(***************************************************************************)
EXTENDS Integers, Sequences, FiniteSets, TLC

\* ------------------------------------------------------------------ bounds
MaxTasks    == 2   \* task rows ever inserted
MaxUsers    == 3   \* user rows ever inserted
MaxTime     == 2   \* the clock runs 0..MaxTime
MaxInflight == 2   \* HTTP requests being served concurrently
TokenTTL    == 1   \* jwtExpiresIn ('7d'), in clock ticks
MaxBinds    == 3   \* listener functions ever created per element and event type
MaxToasts   == 3   \* toasts in the container at once
MaxFlows    == 1   \* task handlers suspended at an await at once, on the whole page
MaxToggles  == 2   \* toggle actions of the user on one task
MaxLogins   == 2   \* successful logins and registrations of one browser
MaxToastIds == 2   \* toasts one ToastNotification shows
MaxCalls    == 5   \* calls made on one LoadingIndicator

\* config.apiMaxRetries and config.apiRetryDelay (ms)
ApiMaxRetries == 3
ApiRetryDelay == 1000

\* -------------------------------------------------------- program constants
MIN_PASSWORD_LENGTH == 8

\* -------------------------------------------------------------------- text
Rep(n, c)           == [i \in 1..n |-> c]
Whitespace          == {" ", "\t"}

\* String.prototype.trim
RECURSIVE TrimLeft(_)
TrimLeft(s) == IF s # <<>> /\ Head(s) \in Whitespace THEN TrimLeft(Tail(s)) ELSE s

RECURSIVE TrimRight(_)
TrimRight(s) ==
    IF s # <<>> /\ s[Len(s)] \in Whitespace THEN TrimRight(SubSeq(s, 1, Len(s) - 1)) ELSE s

Trim(s) == TrimRight(TrimLeft(s))

\* one [^\s@]+ run
PlainRun(s) == Len(s) > 0 /\ \A k \in 1..Len(s) : s[k] \notin (Whitespace \cup {"@"})

\* EMAIL_REGEX = /^[^\s@]+@[^\s@]+\.[^\s@]+$/
IsValidEmail(e) ==
    \E i \in 1..Len(e) : \E j \in 1..Len(e) :
        /\ i < j
        /\ e[i] = "@"
        /\ e[j] = "."
        /\ PlainRun(SubSeq(e, 1, i - 1))
        /\ PlainRun(SubSeq(e, i + 1, j - 1))
        /\ PlainRun(SubSeq(e, j + 1, Len(e)))

IsValidPassword(p) ==
    /\ Len(p) >= MIN_PASSWORD_LENGTH
    /\ Len(Trim(p)) >= MIN_PASSWORD_LENGTH

\* ---------------------------------------------------------------- inputs
EmailA   == <<"a", "@", "x", ".", "y">>
EmailB   == <<"b", "@", "x", ".", "y">>
EmailBad == <<"a", "@", "x">>
Emails   == {EmailA, EmailB, EmailBad, <<>>}

PwGood   == Rep(MIN_PASSWORD_LENGTH, "p")
PwOther  == Rep(MIN_PASSWORD_LENGTH, "q")
PwShort  == Rep(MIN_PASSWORD_LENGTH - 1, "p")
PwBlank  == Rep(MIN_PASSWORD_LENGTH, " ")
Passwords == {PwGood, PwOther, PwShort, PwBlank, <<>>}

DescMilk  == <<"a">>
DescPad   == <<" ", "b", " ">>
DescBlank == <<" ", " ">>
Descriptions == {DescMilk, DescPad, DescBlank}

\* the nil UUID: well formed, never assigned to a row
NilTaskId == 0
TaskIds   == 0..MaxTasks

\* ------------------------------------------------------------------ state
VARIABLES
    users,      \* table users: rows [id, email, password_hash]
    tasks,      \* table tasks: rows [id, user_id, description, completed, created_at, updated_at]
    userSeq,    \* ids given out by users.id DEFAULT gen_random_uuid()
    taskSeq,    \* ids given out by tasks.id DEFAULT gen_random_uuid()
    createdBy,  \* history: task id -> the identity whose POST inserted it
    now,        \* the clock
    nodeEnv,    \* config.nodeEnv
    reqs,       \* the handlers suspended at an await, by connection
    res,        \* the response sent last
    uiController,      \* app.js: the UIController instance, or null
    listeners,         \* the browser: listeners attached, by element and event type
    closures,          \* listener functions created so far, by element and event type
    dispatched,        \* the DOM event dispatched last and what ran for it
    session,           \* token in localStorage, token of apiClient, what is hidden
    appPc,             \* where the client's async flow is suspended
    taskManagerTasks,  \* taskManager.tasks
    renderedTasks,     \* the task list as rendered
    toasts,            \* the toast container
    activeRequests,    \* loadingIndicator.activeRequests
    flows,             \* the task handlers of app.js suspended at an await
    epoch,             \* successful logins and registrations of this browser so far
    loadToken,         \* the token the pending initial GET api/tasks carries
    notice,            \* history: the operation that ended in the last step
    apiCall,           \* one APIClient._request call: its attempts and waits
    localStorage,      \* window.localStorage: authToken, currentUser, tasks
    overlay,           \* the element #loading-overlay: missing, hidden or shown
    lastCall,          \* history: the method called last, with its arguments
    toaster            \* a ToastNotification: container, map, nextId, pending timers

serverVars == <<users, tasks, userSeq, taskSeq, createdBy, now, nodeEnv, reqs, res>>
clientVars == <<uiController, listeners, closures, dispatched, session, appPc,
                taskManagerTasks, renderedTasks, toasts, activeRequests,
                flows, epoch, loadToken, notice, apiCall,
                localStorage, overlay, lastCall, toaster>>

unitVars == <<localStorage, lastCall, toaster>>

Slots == 1..MaxInflight

\* ---------------------------------------------------------- session tokens
EmptyToken   == [kind |-> "empty",   userId |-> 0, email |-> <<>>, iat |-> 0, exp |-> 0, sig |-> "none"]
GarbageToken == [kind |-> "garbage", userId |-> 0, email |-> <<>>, iat |-> 0, exp |-> 0, sig |-> "none"]

\* jwt.sign({ userId, email }, config.jwtSecret, { expiresIn })
GenerateToken(userId, email, t) ==
    [kind |-> "jwt", userId |-> userId, email |-> email,
     iat |-> t, exp |-> t + TokenTTL, sig |-> "server"]

\* the same claims signed with a key that is not config.jwtSecret
ForgeToken(userId, email, t) ==
    [GenerateToken(userId, email, t) EXCEPT !.sig = "other", !.exp = t + MaxTime + TokenTTL]

NoUser == [userId |-> 0, email |-> <<>>]

\* a verifier that ignores exp: what C5 must tell apart from verifyToken
VerifyTokenNoExpiry(token, t) ==
    IF token.kind # "jwt" \/ token.sig # "server"
    THEN [ok |-> FALSE, name |-> "JsonWebTokenError", payload |-> NoUser]
    ELSE [ok |-> TRUE, name |-> "", payload |-> [userId |-> token.userId, email |-> token.email]]

\* jwt.verify(token, config.jwtSecret): structure, then signature, then expiry
VerifyToken(token, t) ==
    IF token.kind # "jwt" \/ token.sig # "server"
    THEN [ok |-> FALSE, name |-> "JsonWebTokenError", payload |-> NoUser]
    ELSE IF t >= token.exp
    THEN [ok |-> FALSE, name |-> "TokenExpiredError", payload |-> NoUser]
    ELSE [ok |-> TRUE, name |-> "", payload |-> [userId |-> token.userId, email |-> token.email]]

\* An Authorization header, cut where the code cuts it: its first seven
\* characters and what substring(7) returns.
NoHeader      == [present |-> FALSE, first7 |-> "",        rest |-> EmptyToken]
EmptyHeader   == [present |-> TRUE,  first7 |-> "",        rest |-> EmptyToken]
Bearer(token) == [present |-> TRUE,  first7 |-> "Bearer ", rest |-> token]
Scheme(s, token) == [present |-> TRUE, first7 |-> s, rest |-> token]

\* extractTokenFromHeader: null is the empty token, both are falsy
ExtractTokenFromHeader(authHeader) ==
    IF ~authHeader.present \/ authHeader.first7 = "" \/ authHeader.first7 # "Bearer "
    THEN EmptyToken
    ELSE authHeader.rest

\* authenticateToken: next is TRUE when next() was called
AuthenticateToken(authHeader, t) ==
    LET token == ExtractTokenFromHeader(authHeader) IN
    IF token.kind = "empty"
    THEN [next |-> FALSE, status |-> 401, error |-> "Authentication required", user |-> NoUser]
    ELSE LET decoded == VerifyToken(token, t) IN
         IF decoded.ok
         THEN [next |-> TRUE, status |-> 0, error |-> "", user |-> decoded.payload]
         ELSE IF decoded.name = "JsonWebTokenError"
         THEN [next |-> FALSE, status |-> 401, error |-> "Invalid token", user |-> NoUser]
         ELSE IF decoded.name = "TokenExpiredError"
         THEN [next |-> FALSE, status |-> 401, error |-> "Token expired", user |-> NoUser]
         ELSE [next |-> FALSE, status |-> 401, error |-> "Authentication failed", user |-> NoUser]

\* bcrypt.hash / bcrypt.compare
HashPassword(password)         == <<"$2b$">> \o password
VerifyPassword(password, hash) == hash = HashPassword(password)

\* -------------------------------------------------------- request bodies
TaskBody(dt, d, ct, c) == [descType |-> dt, description |-> d, complType |-> ct, completed |-> c]
NoTaskBody == TaskBody("undefined", <<>>, "undefined", FALSE)
NoCred     == [email |-> <<>>, password |-> <<>>]

\* validateRegistration: 0 when next() is called, else the status sent
ValidateRegistration(cred) ==
    IF cred.email = <<>> \/ cred.password = <<>> THEN 400
    ELSE IF ~IsValidEmail(cred.email) THEN 400
    ELSE IF ~IsValidPassword(cred.password) THEN 400
    ELSE 0

\* validateLogin
ValidateLogin(cred) ==
    IF cred.email = <<>> \/ cred.password = <<>> THEN 400 ELSE 0

\* validateTaskCreation
ValidateTaskCreation(body) ==
    IF body.descType = "undefined" \/ (body.descType = "string" /\ body.description = <<>>)
    THEN 400
    ELSE IF body.descType # "string" \/ Len(Trim(body.description)) = 0 THEN 400
    ELSE 0

\* validateTaskUpdate
ValidateTaskUpdate(body) ==
    IF body.descType = "undefined" /\ body.complType = "undefined" THEN 400
    ELSE IF body.descType # "undefined"
            /\ (body.descType # "string" \/ Len(Trim(body.description)) = 0) THEN 400
    ELSE IF body.complType # "undefined" /\ body.complType # "boolean" THEN 400
    ELSE 0

\* ------------------------------------------------------------ data access
\* users.email is UNIQUE: the INSERT of createUser raises 23505 on a duplicate
UniqueViolation ==
    [name |-> "error", code |-> "23505", message |-> <<"duplicate", "key", "value">>,
     statusCode |-> 0, isOperational |-> FALSE]

FindUserByEmail(email) == {u \in users : u.email = email}
FindUserById(userId)   == {u \in users : u.id = userId}

EmailTaken(email) == FindUserByEmail(email) # {}

UserRow(email, passwordHash) ==
    [id |-> userSeq + 1, email |-> email, password_hash |-> passwordHash]

\* createTask: INSERT INTO tasks (user_id, description, completed) VALUES ($1, $2, FALSE)
TaskRow(userId, description) ==
    [id |-> taskSeq + 1, user_id |-> userId, description |-> description,
     completed |-> FALSE, created_at |-> now, updated_at |-> now]

\* rows of a set, newest first (ties broken by insertion order)
Newer(a, b) == a.created_at > b.created_at \/ (a.created_at = b.created_at /\ a.id > b.id)

RECURSIVE SortNewestFirst(_)
SortNewestFirst(rows) ==
    IF rows = {} THEN <<>>
    ELSE LET top == CHOOSE a \in rows : \A b \in rows \ {a} : Newer(a, b)
         IN  <<top>> \o SortNewestFirst(rows \ {top})

\* a query without the WHERE clause: what C4 must tell apart from getTasksByUserId
GetAllTasks(userId) == SortNewestFirst(tasks)

\* getTasksByUserId: WHERE user_id = $1 ORDER BY created_at DESC
GetTasksByUserId(userId) == SortNewestFirst({t \in tasks : t.user_id = userId})

FindTaskById(taskId) == {t \in tasks : t.id = taskId}

\* a check on the id alone: what C1 must tell apart from verifyTaskOwnership
TaskExists(taskId, userId) == \E t \in tasks : t.id = taskId

\* verifyTaskOwnership: WHERE id = $1 AND user_id = $2, rowCount > 0
VerifyTaskOwnership(taskId, userId) ==
    \E t \in tasks : t.id = taskId /\ t.user_id = userId

\* a SET clause that writes user_id too
UpdatedRowDisowned(t, updates) ==
    [t EXCEPT !.user_id = 0, !.completed = updates.completed, !.updated_at = now]

\* the SET clause updateTask builds
UpdatedRow(t, updates) ==
    [t EXCEPT !.description = IF updates.descType # "undefined"
                              THEN updates.description ELSE @,
              !.completed   = IF updates.complType # "undefined"
                              THEN updates.completed ELSE @,
              !.updated_at  = now]

\* updateTask: the table after UPDATE tasks SET ... WHERE id = $n
UpdateTask(taskId, updates) ==
    IF updates.descType = "undefined" /\ updates.complType = "undefined"
    THEN tasks
    ELSE {IF t.id = taskId THEN UpdatedRow(t, updates) ELSE t : t \in tasks}

\* deleteTask: the table after DELETE FROM tasks WHERE id = $1
DeleteTask(taskId) == {t \in tasks : t.id # taskId}

\* ---------------------------------------------------------- error handler
PgErrorCodes ==
    [c \in {"23505", "23503", "23502", "22P02", "42P01", "42703", "08006", "08003", "08000"} |->
        CASE c = "23505" -> 409
          [] c \in {"23503", "23502", "22P02"} -> 400
          [] c \in {"42P01", "42703"} -> 500
          [] OTHER -> 503]

\* String.prototype.includes on a message held as a sequence of words
Includes(message, word) == \E i \in 1..Len(message) : message[i] = word

\* handleDatabaseError
HandleDatabaseError(err) ==
    IF err.code # "" /\ err.code \in DOMAIN PgErrorCodes
    THEN [status |-> PgErrorCodes[err.code], generic |-> TRUE]
    ELSE IF Includes(err.message, "connect")
    THEN [status |-> 503, generic |-> TRUE]
    ELSE [status |-> 500, generic |-> TRUE]

\* errorHandler: the status sent, and whether the message sent is err.message
ErrorHandler(err, env) ==
    LET base == [status |-> IF err.statusCode # 0 THEN err.statusCode ELSE 500,
                 generic |-> err.message = <<>>]
        typed ==
            IF err.name \in {"JsonWebTokenError", "TokenExpiredError"}
            THEN [status |-> 401, generic |-> TRUE]
            ELSE IF err.code # "" \/ Includes(err.message, "database")
            THEN HandleDatabaseError(err)
            ELSE IF err.name = "ValidationError"
            THEN [status |-> 400, generic |-> err.message = <<>>]
            ELSE IF err.name = "SyntaxError" /\ Includes(err.message, "JSON")
            THEN [status |-> 400, generic |-> TRUE]
            ELSE base
    IN  IF typed.status = 500 /\ env = "production" /\ ~err.isOperational
        THEN [typed EXCEPT !.generic = TRUE]
        ELSE typed

\* ----------------------------------------------------------- HTTP requests
\* A handler suspended at an await keeps the request as received and the
\* identity the middleware attached (req.user).
Request(pc, route, header, taskId, body, cred, user) ==
    [pc |-> pc, route |-> route, header |-> header, taskId |-> taskId, body |-> body,
     cred |-> cred, user |-> user]

IdleRequest == Request("idle", "", NoHeader, NilTaskId, NoTaskBody, NoCred, NoUser)

\* A response being written, with the request it answers. The server takes its
\* next step once the response has left (Sent), so res is the answer of the
\* step just taken and is read against the tables as that step left them.
Response(route, header, taskId, body, cred, user, status, resTasks, resToken) ==
    [route |-> route, header |-> header, taskId |-> taskId,
     body |-> body, cred |-> cred, user |-> user, status |-> status,
     resTasks |-> resTasks, resToken |-> resToken]

NoResponse ==
    [route |-> "", header |-> NoHeader, taskId |-> NilTaskId,
     body |-> NoTaskBody, cred |-> NoCred, user |-> NoUser, status |-> 0,
     resTasks |-> <<>>, resToken |-> EmptyToken]

\* connections are interchangeable: a request takes the first idle one
Free(r) == res = NoResponse /\ reqs[r].pc = "idle" /\ \A q \in 1..(r - 1) : reqs[q].pc # "idle"

\* res.status(status).json(...) on a task route
Respond(route, header, taskId, body, user, status, resTasks) ==
    res' = Response(route, header, taskId, body, NoCred, user, status, resTasks, EmptyToken)

\* res.status(status).json(...) on an auth route
RespondAuth(route, header, cred, user, status, resToken) ==
    res' = Response(route, header, NilTaskId, NoTaskBody, cred, user, status, <<>>, resToken)

\* the handler is suspended at an await
Await(r, pc, route, header, taskId, body, cred, user) ==
    reqs' = [reqs EXCEPT ![r] = Request(pc, route, header, taskId, body, cred, user)]

Resume(r) == reqs' = [reqs EXCEPT ![r] = IdleRequest]

\* what the clients can send -------------------------------------------------
IssuedTokens == {GenerateToken(u.id, u.email, t) : u \in users, t \in 0..now}

SessionHeaders == {Bearer(tok) : tok \in IssuedTokens}

BadHeaders ==
    {NoHeader, EmptyHeader, Bearer(EmptyToken), Bearer(GarbageToken)}
    \cup {Scheme("bearer ", tok) : tok \in IssuedTokens}
    \cup {Bearer(ForgeToken(u.id, u.email, now)) : u \in users}

Headers == SessionHeaders \cup BadHeaders

TaskHeaders == SessionHeaders \cup {NoHeader}

CreateBodies ==
    {TaskBody("string", d, "undefined", FALSE) : d \in Descriptions} \cup {NoTaskBody}

UpdateBodies ==
    {TaskBody("undefined", <<>>, "boolean", c) : c \in BOOLEAN}
    \cup {TaskBody("string", DescPad, "undefined", FALSE), NoTaskBody}

Credentials == [email : Emails, password : Passwords]

\* ------------------------------------------------------------ task routes
\* GET /tasks: authenticateToken, getTasks
GetTasks(header) ==
    /\ res = NoResponse
    /\ LET auth == AuthenticateToken(header, now) IN
       IF ~auth.next
       THEN Respond("GET /tasks", header, NilTaskId, NoTaskBody, auth.user, auth.status, <<>>)
       ELSE Respond("GET /tasks", header, NilTaskId, NoTaskBody, auth.user, 200,
                    GetTasksByUserId(auth.user.userId))
    /\ UNCHANGED <<users, tasks, userSeq, taskSeq, createdBy, now, nodeEnv, reqs>>
    /\ UNCHANGED clientVars

\* the description stored as sent: what C8 must tell apart from the trim
CreatedDescriptionRaw(description) == description

\* createNewTask: createTask(userId, description.trim())
CreatedDescription(description) == Trim(description)

\* POST /tasks: authenticateToken, validateTaskCreation, createNewTask
CreateNewTask(header, body) ==
    /\ res = NoResponse
    /\ LET auth  == AuthenticateToken(header, now)
           valid == ValidateTaskCreation(body)
           row   == TaskRow(auth.user.userId, CreatedDescription(body.description))
       IN
       IF ~auth.next
       THEN /\ Respond("POST /tasks", header, NilTaskId, body, auth.user, auth.status, <<>>)
            /\ UNCHANGED <<tasks, taskSeq, createdBy>>
       ELSE IF valid # 0
       THEN /\ Respond("POST /tasks", header, NilTaskId, body, auth.user, valid, <<>>)
            /\ UNCHANGED <<tasks, taskSeq, createdBy>>
       ELSE /\ taskSeq < MaxTasks
            /\ tasks' = tasks \cup {row}
            /\ taskSeq' = taskSeq + 1
            /\ createdBy' = [createdBy EXCEPT ![row.id] = auth.user.userId]
            /\ Respond("POST /tasks", header, row.id, body, auth.user, 201, <<row>>)
    /\ UNCHANGED <<users, userSeq, now, nodeEnv, reqs>>
    /\ UNCHANGED clientVars

\* the updates object updateExistingTask builds from the body
BuildUpdates(body) ==
    [body EXCEPT !.description = IF body.descType # "undefined" THEN Trim(@) ELSE @]

\* PUT /tasks/:id: authenticateToken, validateTaskUpdate, updateExistingTask up
\* to the answer of verifyTaskOwnership
PutTask(r, header, taskId, body) ==
    /\ Free(r)
    /\ LET auth  == AuthenticateToken(header, now)
           valid == ValidateTaskUpdate(body)
       IN
       IF ~auth.next
       THEN /\ Respond("PUT /tasks/:id", header, taskId, body, auth.user, auth.status, <<>>)
            /\ UNCHANGED reqs
       ELSE IF valid # 0
       THEN /\ Respond("PUT /tasks/:id", header, taskId, body, auth.user, valid, <<>>)
            /\ UNCHANGED reqs
       ELSE IF ~VerifyTaskOwnership(taskId, auth.user.userId)
       THEN /\ Respond("PUT /tasks/:id", header, taskId, body, auth.user, 403, <<>>)
            /\ UNCHANGED reqs
       ELSE /\ Await(r, "owner", "PUT /tasks/:id", header, taskId, body, NoCred, auth.user)
            /\ UNCHANGED res
    /\ UNCHANGED <<users, tasks, userSeq, taskSeq, createdBy, now, nodeEnv>>
    /\ UNCHANGED clientVars

\* updateExistingTask from `await updateTask(taskId, updates)` on
UpdateExistingTask(r) ==
    /\ res = NoResponse
    /\ reqs[r].pc = "owner"
    /\ reqs[r].route = "PUT /tasks/:id"
    /\ LET q       == reqs[r]
           updated == UpdateTask(q.taskId, BuildUpdates(q.body))
           row     == {t \in updated : t.id = q.taskId}
       IN
       /\ tasks' = updated
       /\ IF row = {}
          THEN Respond(q.route, q.header, q.taskId, q.body, q.user, 404, <<>>)
          ELSE Respond(q.route, q.header, q.taskId, q.body, q.user, 200, SortNewestFirst(row))
    /\ Resume(r)
    /\ UNCHANGED <<users, userSeq, taskSeq, createdBy, now, nodeEnv>>
    /\ UNCHANGED clientVars

\* DELETE /tasks/:id: authenticateToken, deleteExistingTask up to the answer of
\* verifyTaskOwnership
DeleteTaskRequest(r, header, taskId) ==
    /\ Free(r)
    /\ LET auth == AuthenticateToken(header, now) IN
       IF ~auth.next
       THEN /\ Respond("DELETE /tasks/:id", header, taskId, NoTaskBody, auth.user,
                       auth.status, <<>>)
            /\ UNCHANGED reqs
       ELSE IF ~VerifyTaskOwnership(taskId, auth.user.userId)
       THEN /\ Respond("DELETE /tasks/:id", header, taskId, NoTaskBody, auth.user, 403, <<>>)
            /\ UNCHANGED reqs
       ELSE /\ Await(r, "owner", "DELETE /tasks/:id", header, taskId, NoTaskBody, NoCred,
                     auth.user)
            /\ UNCHANGED res
    /\ UNCHANGED <<users, tasks, userSeq, taskSeq, createdBy, now, nodeEnv>>
    /\ UNCHANGED clientVars

\* deleteExistingTask from `await deleteTask(taskId)` on
DeleteExistingTask(r) ==
    /\ res = NoResponse
    /\ reqs[r].pc = "owner"
    /\ reqs[r].route = "DELETE /tasks/:id"
    /\ LET q       == reqs[r]
           deleted == FindTaskById(q.taskId) # {}
       IN
       /\ tasks' = DeleteTask(q.taskId)
       /\ Respond(q.route, q.header, q.taskId, q.body, q.user,
                  IF deleted THEN 200 ELSE 404, <<>>)
    /\ Resume(r)
    /\ UNCHANGED <<users, userSeq, taskSeq, createdBy, now, nodeEnv>>
    /\ UNCHANGED clientVars

\* time passes
Tick ==
    /\ res = NoResponse
    /\ now < MaxTime
    /\ now' = now + 1
    /\ UNCHANGED <<users, tasks, userSeq, taskSeq, createdBy, nodeEnv, reqs, res>>
    /\ UNCHANGED clientVars

\* res.json(...) returns: the response is on the wire
Sent ==
    /\ res # NoResponse
    /\ res' = NoResponse
    /\ UNCHANGED <<users, tasks, userSeq, taskSeq, createdBy, now, nodeEnv, reqs>>
    /\ UNCHANGED clientVars

\* ------------------------------------------------------------ auth routes
\* a users table without the UNIQUE constraint: what C7 must tell apart
InsertDuplicateUser(email) == FALSE

\* the UNIQUE constraint on users.email, as the INSERT of createUser meets it
InsertRaisesUnique(email) == EmailTaken(email)

\* POST /auth/register: validateRegistration, register up to the answer of
\* findUserByEmail
Register(r, cred) ==
    /\ Free(r)
    /\ LET valid == ValidateRegistration(cred) IN
       IF valid # 0
       THEN /\ RespondAuth("POST /auth/register", NoHeader, cred, NoUser, valid, EmptyToken)
            /\ UNCHANGED reqs
       ELSE IF cred.password = <<>> \/ Len(cred.password) < MIN_PASSWORD_LENGTH
       THEN /\ RespondAuth("POST /auth/register", NoHeader, cred, NoUser, 400, EmptyToken)
            /\ UNCHANGED reqs
       ELSE IF FindUserByEmail(cred.email) # {}
       THEN /\ RespondAuth("POST /auth/register", NoHeader, cred, NoUser, 409, EmptyToken)
            /\ UNCHANGED reqs
       ELSE /\ Await(r, "hashing", "POST /auth/register", NoHeader, NilTaskId, NoTaskBody,
                     cred, NoUser)
            /\ UNCHANGED res
    /\ UNCHANGED <<users, tasks, userSeq, taskSeq, createdBy, now, nodeEnv>>
    /\ UNCHANGED clientVars

\* register from `await createUser(email, passwordHash)` on; a rejected INSERT
\* goes through next(error) to errorHandler
RegisterCreateUser(r) ==
    /\ res = NoResponse
    /\ reqs[r].pc = "hashing"
    /\ LET q    == reqs[r]
           user == UserRow(q.cred.email, HashPassword(q.cred.password))
       IN
       IF InsertRaisesUnique(q.cred.email)
       THEN /\ RespondAuth(q.route, q.header, q.cred, NoUser,
                           ErrorHandler(UniqueViolation, nodeEnv).status, EmptyToken)
            /\ UNCHANGED <<users, userSeq>>
       ELSE /\ userSeq < MaxUsers
            /\ users' = users \cup {user}
            /\ userSeq' = userSeq + 1
            /\ RespondAuth(q.route, q.header, q.cred,
                           [userId |-> user.id, email |-> user.email], 201,
                           GenerateToken(user.id, user.email, now))
    /\ Resume(r)
    /\ UNCHANGED <<tasks, taskSeq, createdBy, now, nodeEnv>>
    /\ UNCHANGED clientVars

\* POST /auth/login: validateLogin, login
Login(cred) ==
    /\ res = NoResponse
    /\ LET valid == ValidateLogin(cred)
           found == FindUserByEmail(cred.email)
       IN
       IF valid # 0
       THEN RespondAuth("POST /auth/login", NoHeader, cred, NoUser, valid, EmptyToken)
       ELSE IF found = {}
       THEN RespondAuth("POST /auth/login", NoHeader, cred, NoUser, 401, EmptyToken)
       ELSE LET user == CHOOSE u \in found : TRUE IN
            IF ~VerifyPassword(cred.password, user.password_hash)
            THEN RespondAuth("POST /auth/login", NoHeader, cred, NoUser, 401, EmptyToken)
            ELSE RespondAuth("POST /auth/login", NoHeader, cred,
                             [userId |-> user.id, email |-> user.email], 200,
                             GenerateToken(user.id, user.email, now))
    /\ UNCHANGED <<users, tasks, userSeq, taskSeq, createdBy, now, nodeEnv, reqs>>
    /\ UNCHANGED clientVars

\* req.userId as getCurrentUser reads it: authenticateToken sets req.user and
\* nothing else, so the property is undefined (0)
RequestUserId(auth) == 0

\* GET /auth/me: authenticateToken, getCurrentUser
GetCurrentUser(header) ==
    /\ res = NoResponse
    /\ LET auth   == AuthenticateToken(header, now)
           userId == RequestUserId(auth)
           found  == FindUserById(userId)
       IN
       IF ~auth.next
       THEN RespondAuth("GET /auth/me", header, NoCred, auth.user, auth.status, EmptyToken)
       ELSE IF userId = 0
       THEN RespondAuth("GET /auth/me", header, NoCred, auth.user, 401, EmptyToken)
       ELSE IF found = {}
       THEN RespondAuth("GET /auth/me", header, NoCred, auth.user, 404, EmptyToken)
       ELSE RespondAuth("GET /auth/me", header, NoCred, auth.user, 200, EmptyToken)
    /\ UNCHANGED <<users, tasks, userSeq, taskSeq, createdBy, now, nodeEnv, reqs>>
    /\ UNCHANGED clientVars

\* ================================================================ the client
\* --------------------------------------------------------- DOM listeners
\* the (element, event type) pairs the controller listens on
EventKeys == {"form.submit", "taskList.click", "taskList.change", "taskList.keydown",
              "input.keydown"}

\* A listener is a function object: the k-th closure made for its event key,
\* calling the handler it closed over. null is NoListener.
NoListener == [key |-> "", k |-> 0, handler |-> ""]

NewListener(n, key, handler) == [key |-> key, k |-> n[key] + 1, handler |-> handler]

\* element.removeEventListener(type, listener), behind `if (listener)`
RemoveEventListener(l, key, listener) == [l EXCEPT ![key] = @ \ {listener}]

\* element.addEventListener(type, listener)
AddEventListener(l, key, listener) == [l EXCEPT ![key] = @ \cup {listener}]

\* ---------------------------------------------------------- UIController
NoController ==
    [exists |-> FALSE,
     addTaskHandler |-> "", deleteTaskHandler |-> "", toggleTaskHandler |-> "",
     boundSubmitListener |-> NoListener, boundClickListener |-> NoListener,
     boundChangeListener |-> NoListener, boundKeydownListener |-> NoListener]

\* new UIController(elements)
NewController == [NoController EXCEPT !.exists = TRUE]

\* The methods below take and give the controller (c), the listeners attached
\* in the browser (l) and the closure counts (n).
Ui(c, l, n) == [c |-> c, l |-> l, n |-> n]

\* bindAddTask(handler)
BindAddTaskOn(ui, handler) ==
    LET new == NewListener(ui.n, "form.submit", handler) IN
    Ui([ui.c EXCEPT !.addTaskHandler = handler, !.boundSubmitListener = new],
       AddEventListener(
           RemoveEventListener(ui.l, "form.submit", ui.c.boundSubmitListener),
           "form.submit", new),
       [ui.n EXCEPT !["form.submit"] = @ + 1])

\* bindDeleteTask(handler)
BindDeleteTaskOn(ui, handler) ==
    LET new == NewListener(ui.n, "taskList.click", handler) IN
    Ui([ui.c EXCEPT !.deleteTaskHandler = handler, !.boundClickListener = new],
       AddEventListener(
           RemoveEventListener(ui.l, "taskList.click", ui.c.boundClickListener),
           "taskList.click", new),
       [ui.n EXCEPT !["taskList.click"] = @ + 1])

\* bindToggleTask(handler)
BindToggleTaskOn(ui, handler) ==
    LET new == NewListener(ui.n, "taskList.change", handler) IN
    Ui([ui.c EXCEPT !.toggleTaskHandler = handler, !.boundChangeListener = new],
       AddEventListener(
           RemoveEventListener(ui.l, "taskList.change", ui.c.boundChangeListener),
           "taskList.change", new),
       [ui.n EXCEPT !["taskList.change"] = @ + 1])

\* setupKeyboardNavigation(): the task list's keydown listener is replaced; the
\* input's keydown listener is a fresh anonymous function, added and kept nowhere
SetupKeyboardNavigationOn(ui) ==
    LET onList  == NewListener(ui.n, "taskList.keydown", "click")
        onInput == NewListener(ui.n, "input.keydown", "requestSubmit")
    IN
    Ui([ui.c EXCEPT !.boundKeydownListener = onList],
       AddEventListener(
           AddEventListener(
               RemoveEventListener(ui.l, "taskList.keydown", ui.c.boundKeydownListener),
               "taskList.keydown", onList),
           "input.keydown", onInput),
       [ui.n EXCEPT !["taskList.keydown"] = @ + 1, !["input.keydown"] = @ + 1])

\* cleanup()
CleanupOn(ui) ==
    Ui([ui.c EXCEPT !.boundSubmitListener = NoListener, !.boundClickListener = NoListener,
                    !.boundChangeListener = NoListener, !.boundKeydownListener = NoListener],
       RemoveEventListener(
           RemoveEventListener(
               RemoveEventListener(
                   RemoveEventListener(ui.l, "form.submit", ui.c.boundSubmitListener),
                   "taskList.click", ui.c.boundClickListener),
               "taskList.change", ui.c.boundChangeListener),
           "taskList.keydown", ui.c.boundKeydownListener),
       ui.n)

CurrentUi == Ui(uiController, listeners, closures)

\* closures can still be made for every key in keys
CanBind(keys) == \A key \in keys : closures[key] < MaxBinds

SetUi(ui) ==
    /\ uiController' = ui.c
    /\ listeners' = ui.l
    /\ closures' = ui.n

appVars == <<session, appPc, taskManagerTasks, renderedTasks, toasts, activeRequests,
            flows, epoch, loadToken, notice, apiCall, overlay>>

\* the handlers a caller of the controller passes to it
Handlers == {"h1", "h2"}

BindAddTask(handler) ==
    /\ uiController.exists
    /\ CanBind({"form.submit"})
    /\ SetUi(BindAddTaskOn(CurrentUi, handler))
    /\ UNCHANGED <<dispatched, appVars, serverVars, unitVars>>

BindDeleteTask(handler) ==
    /\ uiController.exists
    /\ CanBind({"taskList.click"})
    /\ SetUi(BindDeleteTaskOn(CurrentUi, handler))
    /\ UNCHANGED <<dispatched, appVars, serverVars, unitVars>>

BindToggleTask(handler) ==
    /\ uiController.exists
    /\ CanBind({"taskList.change"})
    /\ SetUi(BindToggleTaskOn(CurrentUi, handler))
    /\ UNCHANGED <<dispatched, appVars, serverVars, unitVars>>

SetupKeyboardNavigation ==
    /\ uiController.exists
    /\ CanBind({"taskList.keydown", "input.keydown"})
    /\ SetUi(SetupKeyboardNavigationOn(CurrentUi))
    /\ UNCHANGED <<dispatched, appVars, serverVars, unitVars>>

Cleanup ==
    /\ uiController.exists
    /\ SetUi(CleanupOn(CurrentUi))
    /\ UNCHANGED <<dispatched, appVars, serverVars, unitVars>>

\* The browser dispatches an event of one of the keys: every listener attached
\* for it runs once. An Enter keydown in the input makes each of its listeners
\* call form.requestSubmit(), which runs the form's submit listeners.
NoDispatch == [event |-> "", ran |-> {}, submits |-> 0, calls |-> <<>>]

\* the handler calls of n submissions in a row, given the handlers the submit
\* listeners call
RECURSIVE Submissions(_, _)
Submissions(n, hs) == IF n = 0 THEN <<>> ELSE hs \o Submissions(n - 1, hs)

RECURSIVE HandlersOf(_)
HandlersOf(ls) ==
    IF ls = {} THEN <<>>
    ELSE LET first == CHOOSE a \in ls : \A b \in ls : a.k <= b.k
         IN  <<first.handler>> \o HandlersOf(ls \ {first})

Dispatch(key) ==
    /\ ~session.appHidden
    /\ LET ran     == listeners[key]
           submits == IF key = "input.keydown" THEN Cardinality(ran)
                      ELSE IF key = "form.submit" THEN 1 ELSE 0
           calls   == IF key \in {"input.keydown", "form.submit"}
                      THEN Submissions(submits, HandlersOf(listeners["form.submit"]))
                      ELSE HandlersOf(ran)
       IN  dispatched' = [event |-> key, ran |-> ran, submits |-> submits, calls |-> calls]
    /\ UNCHANGED <<uiController, listeners, closures, appVars, serverVars, unitVars>>

\* ------------------------------------------------------ window.localStorage
\* getItem answers null for a key that is not set
Null == "null"

\* the task list item is <<>> while it is not set and <<text>> once written
EmptyStorage == [authToken |-> Null, currentUser |-> Null, tasks |-> <<>>]

\* a method call: its name and its arguments
Call(op, args) == [op |-> op, args |-> args]

NoCallYet == Call("", <<>>)

\* ------------------------------------------------- what the user is told
\* The notifications one operation of the user displayed: the titles of its
\* toasts and its inline messages, whether the operation succeeded, and
\* whether handleAuthenticationError ran in it; answer is what its last request
\* was answered with, "" when it made none.
Notice(op, answer, ok, expired, shown, inline) ==
    [op |-> op, answer |-> answer, ok |-> ok, expired |-> expired, toasts |-> shown,
     inline |-> inline]

NoNotice == Notice("", "", FALSE, FALSE, <<>>, <<>>)

\* ------------------------------------------------------------- toasts
Toast(type, title) == [type |-> type, title |-> title, exiting |-> FALSE]

\* toast.show: appended to the container
Show(ts, type, title) == Append(ts, Toast(type, title))

\* toast.dismissAll: every toast gets the exit class; each is removed 300 ms later
DismissAll(ts) == [i \in DOMAIN ts |-> [ts[i] EXCEPT !.exiting = TRUE]]

RemoveAt(ts, i) == SubSeq(ts, 1, i - 1) \o SubSeq(ts, i + 1, Len(ts))

\* the timer set by show() for a positive duration fires: dismiss(id)
ToastTimeout(i) ==
    /\ notice = NoNotice
    /\ i \in DOMAIN toasts
    /\ toasts[i].type # "error"
    /\ ~toasts[i].exiting
    /\ toasts' = [toasts EXCEPT ![i].exiting = TRUE]
    /\ UNCHANGED <<uiController, listeners, closures, dispatched, session, appPc,
                   taskManagerTasks, renderedTasks, activeRequests, serverVars, unitVars>>
    /\ UNCHANGED overlay
    /\ UNCHANGED <<flows, epoch, loadToken, notice, apiCall>>

\* the timer set by dismiss() fires: the toast leaves the container and the map
ToastRemoved(i) ==
    /\ notice = NoNotice
    /\ i \in DOMAIN toasts
    /\ toasts[i].exiting
    /\ toasts' = RemoveAt(toasts, i)
    /\ UNCHANGED <<uiController, listeners, closures, dispatched, session, appPc,
                   taskManagerTasks, renderedTasks, activeRequests, serverVars, unitVars>>
    /\ UNCHANGED overlay
    /\ UNCHANGED <<flows, epoch, loadToken, notice, apiCall>>

\* ------------------------------------------------------------------ app.js
\* a task as the client holds it: what the handlers read of it
TaskItem(id, completed) == [id |-> id, completed |-> completed]

\* the task lists GET api/tasks can answer with
TaskLists == {<<>>, <<TaskItem(1, FALSE)>>, <<TaskItem(2, FALSE), TaskItem(1, TRUE)>>}

\* what an apiClient call ends in: its data, an error of status 401, another error
LoadOutcomes == {"ok", "unauthorized", "failed"}

\* the page as initializeApp leaves it when no token is stored
LoggedOut ==
    [storedToken |-> FALSE, apiToken |-> FALSE, appHidden |-> TRUE, authHidden |-> FALSE,
     loginMessage |-> ""]

\* showApp(): the app container is shown, authUI.hideAuthForms() clears the messages
ShowApp(ss) == [ss EXCEPT !.appHidden = FALSE, !.authHidden = TRUE, !.loginMessage = ""]

\* authService.logout(), apiClient.clearAuthToken(), hideApp(), authUI.showLoginForm()
SignedOut(ss) ==
    [ss EXCEPT !.storedToken = FALSE, !.apiToken = FALSE, !.appHidden = TRUE,
               !.authHidden = FALSE, !.loginMessage = ""]

SessionExpiredMessage == "Your session has expired. Please log in again."

\* handleAuthenticationError(): the session and the toasts after it
AuthenticationErrorSession(ss) ==
    [SignedOut(ss) EXCEPT !.loginMessage = SessionExpiredMessage]

AuthenticationErrorToasts(ts) == Show(DismissAll(ts), "warning", "Session expired")

\* the catch blocks of app.js: error.status === 401
NeverAuthenticationError(outcome) == FALSE

IsAuthenticationError(outcome) == outcome = "unauthorized"

\* What a handler reads and writes of the page, and what it displayed so far.
Page ==
    [session |-> session, tasks |-> taskManagerTasks, rendered |-> renderedTasks,
     toasts |-> toasts, shown |-> <<>>, inline |-> <<>>, expired |-> FALSE,
     replaced |-> FALSE]

SetPage(pg) ==
    /\ session' = pg.session
    /\ taskManagerTasks' = pg.tasks
    /\ renderedTasks' = pg.rendered
    /\ toasts' = pg.toasts

\* toast.success / toast.error / toast.info
ToastOn(pg, type, title) ==
    [pg EXCEPT !.toasts = Show(@, type, title), !.shown = Append(@, title)]

\* handleAuthenticationError()
HandleAuthenticationErrorOn(pg) ==
    [pg EXCEPT !.session = AuthenticationErrorSession(@),
               !.toasts = AuthenticationErrorToasts(@),
               !.shown = Append(@, "Session expired"),
               !.inline = Append(@, SessionExpiredMessage),
               !.expired = TRUE]

\* loadTasks() from the answer of apiClient.get('api/tasks') on.  With no
\* controller, uiController.renderTasks throws a TypeError, which has no status.
LoadTasksOn(pg, outcome, list) ==
    IF outcome = "ok"
    THEN IF uiController.exists
         THEN [pg EXCEPT !.tasks = list, !.rendered = list, !.replaced = TRUE]
         ELSE ToastOn([pg EXCEPT !.tasks = list, !.replaced = TRUE],
                      "error", "Failed to load tasks")
    ELSE IF IsAuthenticationError(outcome)
    THEN HandleAuthenticationErrorOn(pg)
    ELSE ToastOn(pg, "error", "Failed to load tasks")

\* ---- the task handlers bound by initializeAuthenticatedApp
\* the handlers that can be suspended: those of the page as a whole, and the
\* toggles examined on their own
FlowIds == 1..(IF MaxToggles > MaxFlows THEN MaxToggles ELSE MaxFlows)

ClientFlows == 1..MaxFlows

IdleFlow ==
    [pc |-> "idle", kind |-> "", taskId |-> NilTaskId, completed |-> FALSE, stale |-> FALSE]

\* the first handler invocation not in use
FreeFlow(f) ==
    /\ f \in FlowIds
    /\ flows[f].pc = "idle"
    /\ \A g \in 1..(f - 1) : flows[g].pc # "idle"

\* taskManager.tasks was given new task objects: the object a toggle found
\* before its PUT is no longer one of the snapshot
Replaced(fs) ==
    [f \in FlowIds |->
        IF fs[f].kind = "toggle" /\ fs[f].pc = "mutating"
        THEN [fs[f] EXCEPT !.stale = TRUE] ELSE fs[f]]

\* the listener of the controller for key is attached to a visible page and
\* calls handler
CanStart(key, handler) ==
    /\ ~session.appHidden
    /\ \E l \in listeners[key] : l.handler = handler

IndexOfTask(list, taskId) ==
    IF \E i \in DOMAIN list : list[i].id = taskId
    THEN CHOOSE i \in DOMAIN list : list[i].id = taskId /\ \A j \in 1..(i - 1) : list[j].id # taskId
    ELSE 0

\* a validity test that accepts every description
IsValidDescriptionAlways(description) == TRUE

\* task.js isValidDescription for the string of the input element
IsValidDescription(description) == Len(Trim(description)) > 0

\* this.tasks.filter(task => task.id !== id)
WithoutTask(list, taskId) == SelectSeq(list, LAMBDA t : t.id # taskId)

LoadingShown(n) == n + 1

LoadingHidden(n) == IF n > 0 THEN n - 1 ELSE 0

\* the LoadingIndicator: its overlay element and its counter
Loading == [overlay |-> overlay, activeRequests |-> activeRequests]

SetLoading(li) ==
    /\ overlay' = li.overlay
    /\ activeRequests' = li.activeRequests

\* show(): nothing happens without the overlay element
LoadingShow(li) ==
    IF li.overlay = "missing" THEN li
    ELSE [overlay |-> "shown", activeRequests |-> LoadingShown(li.activeRequests)]

\* hide() that hides the overlay at once, whatever the counter says
LoadingHideAtOnce(li) ==
    [overlay |-> IF li.overlay # "missing" THEN "hidden" ELSE li.overlay,
     activeRequests |-> LoadingHidden(li.activeRequests)]

\* hide(): the counter goes down, and the overlay is hidden when it reaches 0
LoadingHide(li) ==
    LET n == LoadingHidden(li.activeRequests)
    IN [overlay |-> IF n = 0 /\ li.overlay # "missing" THEN "hidden" ELSE li.overlay,
        activeRequests |-> n]

\* forceHide()
LoadingForceHide(li) ==
    [overlay |-> IF li.overlay # "missing" THEN "hidden" ELSE li.overlay,
     activeRequests |-> 0]

\* the indicator a new document starts with
LoadingConstructed(li) ==
    [overlay |-> IF li.overlay # "missing" THEN "hidden" ELSE li.overlay,
     activeRequests |-> 0]

\* The submit listener runs the add handler: taskManager.addTask(description)
\* up to the await of apiClient.post, or to its end for an invalid description.
AddTaskSubmitted(f, description) ==
    /\ notice = NoNotice
    /\ CanStart("form.submit", "addTask")
    /\ FreeFlow(f)
    /\ IF IsValidDescription(description)
       THEN /\ flows' = [flows EXCEPT ![f] = [IdleFlow EXCEPT !.pc = "mutating", !.kind = "add"]]
            /\ UNCHANGED notice
       ELSE /\ notice' = Notice("add", "", FALSE, FALSE, <<>>, <<>>)
            /\ UNCHANGED flows
    /\ UNCHANGED <<uiController, listeners, closures, dispatched, session, appPc,
                   taskManagerTasks, renderedTasks, toasts, activeRequests,
                   epoch, loadToken, apiCall, serverVars, unitVars>>
    /\ UNCHANGED overlay

\* The click listener runs the delete handler for a rendered task:
\* taskManager.deleteTask(taskId) up to the await of apiClient.delete.
DeleteTaskClicked(f, taskId) ==
    /\ notice = NoNotice
    /\ CanStart("taskList.click", "deleteTask")
    /\ IndexOfTask(renderedTasks, taskId) # 0
    /\ FreeFlow(f)
    /\ flows' = [flows EXCEPT ![f] = [IdleFlow EXCEPT !.pc = "mutating", !.kind = "delete",
                                                      !.taskId = taskId]]
    /\ UNCHANGED <<uiController, listeners, closures, dispatched, session, appPc,
                   taskManagerTasks, renderedTasks, toasts, activeRequests,
                   epoch, loadToken, notice, apiCall, serverVars, unitVars>>
    /\ UNCHANGED overlay

\* The change listener runs the toggle handler for a rendered task:
\* taskManager.toggleTaskCompletion(taskId) up to the await of apiClient.put,
\* or to its end when the snapshot has no such task.
ToggleStarted(f, taskId) ==
    /\ notice = NoNotice
    /\ CanStart("taskList.change", "toggleTask")
    /\ IndexOfTask(renderedTasks, taskId) # 0
    /\ FreeFlow(f)
    /\ LET i == IndexOfTask(taskManagerTasks, taskId)
       IN IF i # 0
          THEN /\ flows' = [flows EXCEPT ![f] =
                               [IdleFlow EXCEPT !.pc = "mutating", !.kind = "toggle",
                                                !.taskId = taskId,
                                                !.completed = ~taskManagerTasks[i].completed]]
               /\ UNCHANGED notice
          ELSE /\ notice' = Notice("toggle", "", FALSE, FALSE, <<>>, <<>>)
               /\ UNCHANGED flows
    /\ UNCHANGED <<uiController, listeners, closures, dispatched, session, appPc,
                   taskManagerTasks, renderedTasks, toasts, activeRequests,
                   epoch, loadToken, apiCall>>
    /\ UNCHANGED overlay

ToggleTaskChanged(f, taskId) ==
    /\ ToggleStarted(f, taskId)
    /\ UNCHANGED <<serverVars, unitVars>>

\* the snapshot after the TaskManager method's own update, once its request
\* was answered with success
LocallyUpdated(list, fl) ==
    IF fl.kind = "delete" THEN WithoutTask(list, fl.taskId)
    ELSE IF fl.kind = "toggle" /\ ~fl.stale /\ IndexOfTask(list, fl.taskId) # 0
    THEN [list EXCEPT ![IndexOfTask(list, fl.taskId)].completed = fl.completed]
    ELSE list

\* whether the handler goes on to loadTasks() after the TaskManager method returned
Proceeds(list, fl) ==
    IF fl.kind = "add" THEN uiController.exists
    ELSE IF fl.kind = "delete" THEN Len(WithoutTask(list, fl.taskId)) < Len(list)
    ELSE TRUE

FailedTitle(kind) ==
    IF kind = "add" THEN "Failed to add task"
    ELSE IF kind = "delete" THEN "Failed to delete task"
    ELSE "Failed to update task"

\* the catch block of a task handler
HandlerCatchOn(pg, kind, outcome) ==
    IF IsAuthenticationError(outcome)
    THEN HandleAuthenticationErrorOn(pg)
    ELSE ToastOn(pg, "error", FailedTitle(kind))

\* A task handler from the answer to its POST, PUT or DELETE on, up to the
\* await of apiClient.get inside loadTasks, or to its end.
MutationReturned(f, outcome) ==
    /\ notice = NoNotice
    /\ f \in FlowIds
    /\ flows[f].pc = "mutating"
    /\ Len(toasts) < MaxToasts
    /\ LET fl == flows[f]
       IN IF outcome = "ok" /\ Proceeds(taskManagerTasks, fl)
          THEN /\ taskManagerTasks' = LocallyUpdated(taskManagerTasks, fl)
               /\ flows' = [flows EXCEPT ![f].pc = "refreshing"]
               /\ SetLoading(LoadingShow(Loading))
               /\ UNCHANGED <<session, renderedTasks, toasts, notice>>
          ELSE LET pg == IF outcome # "ok" THEN HandlerCatchOn(Page, fl.kind, outcome)
                         ELSE IF fl.kind = "add" THEN HandlerCatchOn(Page, fl.kind, "failed")
                         ELSE Page
               IN /\ SetPage(pg)
                  /\ notice' = Notice(fl.kind, outcome, outcome = "ok", pg.expired, pg.shown, pg.inline)
                  /\ flows' = [flows EXCEPT ![f] = IdleFlow]
                  /\ UNCHANGED <<activeRequests, overlay>>
    /\ UNCHANGED <<uiController, listeners, closures, dispatched, appPc,
                   epoch, loadToken, apiCall>>

MutationReturns(f, outcome) ==
    /\ MutationReturned(f, outcome)
    /\ UNCHANGED <<serverVars, unitVars>>

\* the success toast a task handler shows after loadTasks() returned
SuccessToastOn(pg, fl) ==
    IF fl.kind = "add" THEN ToastOn(pg, "success", "Task added")
    ELSE IF fl.kind = "delete" THEN ToastOn(pg, "success", "Task deleted")
    ELSE IF IndexOfTask(pg.tasks, fl.taskId) = 0 THEN pg
    ELSE IF pg.tasks[IndexOfTask(pg.tasks, fl.taskId)].completed
    THEN ToastOn(pg, "success", "Task completed")
    ELSE ToastOn(pg, "success", "Task reopened")

\* A task handler from the answer to the GET of its loadTasks() on, to its end.
RefreshReturns(f, outcome, list) ==
    /\ notice = NoNotice
    /\ f \in FlowIds
    /\ flows[f].pc = "refreshing"
    /\ outcome = "ok" \/ list = <<>>
    /\ Len(toasts) + 2 <= MaxToasts
    /\ LET fl == flows[f]
           pg == SuccessToastOn(LoadTasksOn(Page, outcome, list), fl)
       IN /\ SetPage(pg)
          /\ notice' = Notice(fl.kind, outcome, TRUE, pg.expired, pg.shown, pg.inline)
          /\ flows' = [(IF pg.replaced THEN Replaced(flows) ELSE flows) EXCEPT ![f] = IdleFlow]
    /\ SetLoading(LoadingHide(Loading))
    /\ UNCHANGED <<uiController, listeners, closures, dispatched, appPc,
                   epoch, loadToken, apiCall, serverVars, unitVars>>

\* initializeAuthenticatedApp up to `await loadTasks()`: the controller is made
\* and bound to the three task handlers
InitializedUiOver(l, n) ==
    SetupKeyboardNavigationOn(
        BindToggleTaskOn(
            BindDeleteTaskOn(
                BindAddTaskOn(Ui(NewController, l, n), "addTask"),
                "deleteTask"),
            "toggleTask"))

InitializedUi == InitializedUiOver(listeners, closures)

\* the notification a failed login or registration gets besides the inline message
AuthFailureToastToo(ts) == Show(ts, "error", "Authentication failed")

AuthFailureToasts(ts) == ts

\* The login or registration form's handler, from the answer of authService on:
\* handleAuthSuccess(result), up to the await inside loadTasks when the
\* authenticated app is initialized, to its end otherwise.
HandleAuthSuccess(success) ==
    /\ notice = NoNotice
    /\ appPc = "idle"
    /\ ~session.authHidden
    /\ Len(toasts) < MaxToasts
    /\ IF ~success
       THEN /\ session' = [session EXCEPT !.loginMessage = "Authentication failed"]
            /\ toasts' = AuthFailureToasts(toasts)
            /\ notice' = Notice("login", "", FALSE, FALSE,
                                [i \in 1..(Len(toasts') - Len(toasts)) |->
                                    toasts'[Len(toasts) + i].title],
                                <<"Authentication failed">>)
            /\ UNCHANGED <<uiController, listeners, closures, appPc, activeRequests,
                           overlay, epoch, loadToken>>
       ELSE /\ epoch < MaxLogins
            /\ epoch' = epoch + 1
            /\ toasts' = Show(toasts, "success", "Welcome!")
            /\ IF uiController.exists
               THEN /\ session' = ShowApp([session EXCEPT !.storedToken = TRUE,
                                                          !.apiToken = TRUE])
                    /\ notice' = Notice("login", "", TRUE, FALSE, <<"Welcome!">>, <<>>)
                    /\ UNCHANGED <<uiController, listeners, closures, appPc, activeRequests,
                                   overlay, loadToken>>
               ELSE /\ CanBind(EventKeys)
                    /\ SetUi(InitializedUi)
                    /\ session' = [session EXCEPT !.storedToken = TRUE, !.apiToken = TRUE]
                    /\ SetLoading(LoadingShow(Loading))
                    /\ appPc' = "loadTasks"
                    /\ loadToken' = epoch'
                    /\ UNCHANGED notice
    /\ UNCHANGED <<dispatched, taskManagerTasks, renderedTasks, flows, apiCall, serverVars, unitVars>>

\* The submit listener of the login or registration form over fields that do
\* not validate: the errors are displayed inline and no handler is called.
AuthFormRejected ==
    /\ notice = NoNotice
    /\ appPc = "idle"
    /\ ~session.authHidden
    /\ session' = [session EXCEPT !.loginMessage = "validation errors"]
    /\ notice' = Notice("validation", "", FALSE, FALSE, <<>>, <<"validation errors">>)
    /\ UNCHANGED <<uiController, listeners, closures, dispatched, appPc,
                   taskManagerTasks, renderedTasks, toasts, activeRequests,
                   flows, epoch, loadToken, apiCall, serverVars, unitVars>>
    /\ UNCHANGED overlay

\* loadTasks from the answer of apiClient.get('api/tasks') on, then the rest of
\* initializeAuthenticatedApp and of its caller, handleAuthSuccess or
\* initializeApp: showApp()
LoadTasksReturns(outcome, list) ==
    /\ notice = NoNotice
    /\ appPc \in {"loadTasks", "loadTasksOnLoad"}
    /\ outcome = "ok" \/ list = <<>>
    /\ Len(toasts) < MaxToasts
    /\ LET pg == LoadTasksOn(Page, outcome, list)
       IN /\ SetPage([pg EXCEPT !.session = ShowApp(@)])
          /\ notice' = IF appPc = "loadTasks"
                       THEN Notice("login", outcome, TRUE, pg.expired, <<"Welcome!">> \o pg.shown,
                                   pg.inline)
                       ELSE Notice("pageLoad", outcome, TRUE, pg.expired, pg.shown, pg.inline)
          /\ flows' = IF pg.replaced THEN Replaced(flows) ELSE flows
    /\ SetLoading(LoadingHide(Loading))
    /\ appPc' = "idle"
    /\ loadToken' = 0
    /\ UNCHANGED <<uiController, listeners, closures, dispatched, epoch, apiCall, serverVars, unitVars>>

\* handleLogout(): the click listener of the logout button
HandleLogout ==
    /\ notice = NoNotice
    /\ appPc = "idle"
    /\ ~session.appHidden
    /\ Len(toasts) < MaxToasts
    /\ session' = SignedOut(session)
    /\ taskManagerTasks' = <<>>
    /\ IF uiController.exists
       THEN /\ renderedTasks' = <<>>
            /\ listeners' = CleanupOn(CurrentUi).l
       ELSE UNCHANGED <<renderedTasks, listeners>>
    /\ uiController' = NoController
    /\ toasts' = Show(toasts, "info", "Logged out")
    /\ notice' = Notice("logout", "", TRUE, FALSE, <<"Logged out">>, <<>>)
    /\ flows' = Replaced(flows)
    /\ UNCHANGED <<closures, dispatched, appPc, activeRequests, epoch, loadToken, apiCall,
                   serverVars, unitVars>>
    /\ UNCHANGED overlay

\* handleAuthenticationError(), called by a task handler whose request was
\* answered 401
HandleAuthenticationError ==
    /\ notice = NoNotice
    /\ appPc = "idle"
    /\ ~session.appHidden
    /\ session.storedToken
    /\ Len(toasts) < MaxToasts
    /\ SetPage(HandleAuthenticationErrorOn(Page))
    /\ notice' = Notice("task", "unauthorized", FALSE, TRUE, <<"Session expired">>, <<SessionExpiredMessage>>)
    /\ UNCHANGED <<uiController, listeners, closures, dispatched, appPc, activeRequests,
                   flows, epoch, loadToken, apiCall, serverVars, unitVars>>
    /\ UNCHANGED overlay

\* The page is loaded again: initializeApp() over a new document, with the
\* token localStorage holds; every handler of the old document is gone.
PageLoad ==
    /\ notice = NoNotice
    /\ dispatched' = NoDispatch
    /\ taskManagerTasks' = <<>>
    /\ renderedTasks' = <<>>
    /\ toasts' = <<>>
    /\ flows' = [f \in FlowIds |-> IdleFlow]
    /\ loadToken' = IF session.storedToken THEN epoch ELSE 0
    /\ IF session.storedToken
       THEN /\ SetUi(InitializedUiOver([key \in EventKeys |-> {}], [key \in EventKeys |-> 0]))
            /\ session' = [LoggedOut EXCEPT !.storedToken = TRUE, !.apiToken = TRUE]
            /\ SetLoading(LoadingShow(LoadingConstructed(Loading)))
            /\ appPc' = "loadTasksOnLoad"
       ELSE /\ SetUi(Ui(NoController, [key \in EventKeys |-> {}], [key \in EventKeys |-> 0]))
            /\ session' = LoggedOut
            /\ SetLoading(LoadingConstructed(Loading))
            /\ appPc' = "idle"
    /\ UNCHANGED <<epoch, notice, apiCall, serverVars, unitVars>>

\* the handler returned to the event loop: the page shows what it left
Settled ==
    /\ notice # NoNotice
    /\ notice' = NoNotice
    /\ UNCHANGED <<uiController, listeners, closures, dispatched, session, appPc,
                   taskManagerTasks, renderedTasks, toasts, activeRequests,
                   flows, epoch, loadToken, apiCall, serverVars, unitVars>>
    /\ UNCHANGED overlay

\* ------------------------------------------------------ APIClient._request
\* HTTP statuses a fetch can resolve with
Statuses == {200, 201, 304, 400, 401, 403, 404, 409, 500, 503}

\* error.status of an error thrown by fetch or by the reading of the body
NoStatus == 0

\* response.ok
ResponseOk(status) == status >= 200 /\ status <= 299

\* _isRetryableError with every error taken for retryable
IsRetryableErrorAlways(status) == TRUE

\* _isRetryableError(error), by error.status
IsRetryableError(status) ==
    \/ status = NoStatus
    \/ status >= 500 /\ status < 600

RECURSIVE Pow2(_)
Pow2(k) == IF k = 0 THEN 1 ELSE 2 * Pow2(k - 1)

\* a delay that does not grow
RetryDelayFlat(attempt) == ApiRetryDelay

\* this.retryDelay * Math.pow(2, attempt)
RetryDelay(attempt) == ApiRetryDelay * Pow2(attempt)

\* the error object made in attempt number attempt
ApiError(status, attempt) == [status |-> status, attempt |-> attempt]

NoError == ApiError(NoStatus, -1)

\* no call of the gateway is in progress
NoCall ==
    [pc |-> "idle", attempt |-> 0, sent |-> 0, errors |-> <<>>, waits |-> <<>>,
     thrown |-> NoError, data |-> NoStatus]

\* get / post / put / delete: _request runs up to the await of the first fetch
RequestCalled ==
    /\ apiCall.pc = "idle"
    /\ apiCall' = [NoCall EXCEPT !.pc = "fetching", !.sent = 1]
    /\ UNCHANGED <<uiController, listeners, closures, dispatched, session, appPc,
                   taskManagerTasks, renderedTasks, toasts, activeRequests,
                   flows, epoch, loadToken, notice, serverVars, unitVars>>
    /\ UNCHANGED overlay

\* One pass of the loop of _request from the settling of fetch on: the body is
\* parsed, a response that is not ok becomes an error of its status, and the
\* catch block throws or goes to sleep.
Settle(call, status) ==
    IF ResponseOk(status)
    THEN [call EXCEPT !.pc = "returned", !.data = status]
    ELSE LET error == ApiError(status, call.attempt)
             seen == [call EXCEPT !.errors = Append(@, error)]
         IN IF ~IsRetryableError(status) \/ call.attempt = ApiMaxRetries
            THEN [seen EXCEPT !.pc = "thrown", !.thrown = error]
            ELSE [seen EXCEPT !.pc = "sleeping",
                              !.waits = Append(@, RetryDelay(call.attempt))]

\* fetch settles with a response of this status, or fails without one
FetchSettled(status) ==
    /\ apiCall.pc = "fetching"
    /\ apiCall' = Settle(apiCall, status)
    /\ UNCHANGED <<uiController, listeners, closures, dispatched, session, appPc,
                   taskManagerTasks, renderedTasks, toasts, activeRequests,
                   flows, epoch, loadToken, notice, serverVars, unitVars>>
    /\ UNCHANGED overlay

\* the timer of _sleep fires: the next pass of the loop calls fetch again
SleepElapsed ==
    /\ apiCall.pc = "sleeping"
    /\ apiCall' = [apiCall EXCEPT !.pc = "fetching", !.attempt = @ + 1, !.sent = @ + 1]
    /\ UNCHANGED <<uiController, listeners, closures, dispatched, session, appPc,
                   taskManagerTasks, renderedTasks, toasts, activeRequests,
                   flows, epoch, loadToken, notice, serverVars, unitVars>>
    /\ UNCHANGED overlay

\* the caller received the data or the error
CallEnded ==
    /\ apiCall.pc \in {"returned", "thrown"}
    /\ apiCall' = NoCall
    /\ UNCHANGED <<uiController, listeners, closures, dispatched, session, appPc,
                   taskManagerTasks, renderedTasks, toasts, activeRequests,
                   flows, epoch, loadToken, notice, serverVars, unitVars>>
    /\ UNCHANGED overlay

\* ------------------------------------------------------------- AuthService
\* JavaScript values handed to the setters: null, strings, a number, objects
Js(type, v) == [type |-> type, v |-> v]

JsNull == Js("null", "")

TokenValues == {JsNull, Js("string", ""), Js("string", "t1"), Js("string", "t2"), Js("number", "42")}

UserValues == {JsNull, Js("object", "u1"), Js("object", "u2"), Js("string", "u1")}

\* JSON.stringify and JSON.parse of a user object
JsonStringify(v) == <<"{", v.v, "}">>

JsonParse(text) == Js("object", text[2])

\* getToken()
GetToken(ls) == ls.authToken

\* getCurrentUser()
GetStoredUser(ls) == IF ls.currentUser = Null THEN JsNull ELSE JsonParse(ls.currentUser)

\* isAuthenticated()
IsAuthenticated(ls) == GetToken(ls) # Null /\ GetToken(ls) # ""

\* setToken(token); throws says that localStorage.setItem raises (quota)
SetTokenOn(ls, token, throws) ==
    IF token.type = "string" /\ token.v # "" /\ ~throws
    THEN [ls EXCEPT !.authToken = token.v] ELSE ls

\* setUser(user)
SetUserOn(ls, user, throws) ==
    IF user.type = "object" /\ ~throws
    THEN [ls EXCEPT !.currentUser = JsonStringify(user)] ELSE ls

\* logout() leaving the user in place
LogoutKeepsUser(ls) == [ls EXCEPT !.authToken = Null]

\* logout()
LogoutOn(ls) == [ls EXCEPT !.authToken = Null, !.currentUser = Null]

\* login(email, password) and register(email, password) from the answer on
LoginOn(ls, ok, token, user, throws) ==
    IF ok THEN SetUserOn(SetTokenOn(ls, token, throws), user, throws) ELSE ls

SetToken(token, throws) ==
    /\ localStorage' = SetTokenOn(localStorage, token, throws)
    /\ lastCall' = Call("setToken", <<token, throws>>)
    /\ UNCHANGED <<uiController, listeners, closures, dispatched, appVars, serverVars, toaster>>

SetUser(user, throws) ==
    /\ localStorage' = SetUserOn(localStorage, user, throws)
    /\ lastCall' = Call("setUser", <<user, throws>>)
    /\ UNCHANGED <<uiController, listeners, closures, dispatched, appVars, serverVars, toaster>>

AuthServiceLogin(op, ok, token, user, throws) ==
    /\ localStorage' = LoginOn(localStorage, ok, token, user, throws)
    /\ lastCall' = Call(op, <<ok, token, user, throws>>)
    /\ UNCHANGED <<uiController, listeners, closures, dispatched, appVars, serverVars, toaster>>

AuthServiceLogout ==
    /\ localStorage' = LogoutOn(localStorage)
    /\ lastCall' = Call("logout", <<>>)
    /\ UNCHANGED <<uiController, listeners, closures, dispatched, appVars, serverVars, toaster>>

\* ------------------------------------- StorageManager and the local TaskManager
\* JSON.stringify of the task array and JSON.parse of what it wrote
TasksToJson(list) ==
    [i \in DOMAIN list |->
        <<list[i].id, list[i].description, list[i].completed, list[i].createdAt>>]

JsonToTasks(text) ==
    [i \in DOMAIN text |->
        [id |-> text[i][1], description |-> text[i][2], completed |-> text[i][3],
         createdAt |-> text[i][4]]]

\* StorageManager.loadTasks()
StorageLoadTasks(ls) == IF ls.tasks = <<>> THEN <<>> ELSE JsonToTasks(ls.tasks[1])

\* StorageManager.saveTasks(tasks); throws says that localStorage.setItem raises
StorageSaveTasks(ls, list, throws) ==
    IF throws THEN ls ELSE [ls EXCEPT !.tasks = <<TasksToJson(list)>>]

\* task.js createTask(description) with the id and the time it was given
CreateTask(description, id, time) ==
    [id |-> id, description |-> Trim(description), completed |-> FALSE, createdAt |-> time]

\* an id generateTaskId can give: one no task of the list has
FreshIds(list) == {id \in 1..(MaxTasks + 1) : \A i \in DOMAIN list : list[i].id # id}

\* TaskManager.addTask(description) without an API client
LocalAddTaskOn(tm, description, id, time, throws) ==
    IF ~IsValidDescription(description) THEN tm
    ELSE LET list == Append(tm.tasks, CreateTask(description, id, time))
         IN [tasks |-> list, storage |-> StorageSaveTasks(tm.storage, list, throws)]

\* TaskManager.deleteTask(id) without an API client
LocalDeleteTaskOn(tm, id, throws) ==
    LET list == WithoutTask(tm.tasks, id)
    IN IF Len(list) < Len(tm.tasks)
       THEN [tasks |-> list, storage |-> StorageSaveTasks(tm.storage, list, throws)]
       ELSE [tm EXCEPT !.tasks = list]

\* TaskManager.toggleTaskCompletion(id) without an API client
LocalToggleTaskOn(tm, id, throws) ==
    LET i == IndexOfTask(tm.tasks, id)
    IN IF i = 0 THEN tm
       ELSE LET list == [tm.tasks EXCEPT ![i].completed = ~@]
            IN [tasks |-> list, storage |-> StorageSaveTasks(tm.storage, list, throws)]

LocalTaskManager == [tasks |-> taskManagerTasks, storage |-> localStorage]

SetLocalTaskManager(tm) ==
    /\ taskManagerTasks' = tm.tasks
    /\ localStorage' = tm.storage

LocalAddTask(description, time, throws) ==
    /\ Len(taskManagerTasks) < MaxTasks
    /\ \E id \in FreshIds(taskManagerTasks) :
          /\ \A other \in FreshIds(taskManagerTasks) : id <= other
          /\ SetLocalTaskManager(LocalAddTaskOn(LocalTaskManager, description, id, time, throws))
    /\ lastCall' = Call("addTask", <<description, time, throws>>)
    /\ UNCHANGED <<uiController, listeners, closures, dispatched, session, appPc,
                   renderedTasks, toasts, activeRequests, flows, epoch, loadToken, notice,
                   apiCall, overlay, serverVars, toaster>>

LocalDeleteTask(id, throws) ==
    /\ SetLocalTaskManager(LocalDeleteTaskOn(LocalTaskManager, id, throws))
    /\ lastCall' = Call("deleteTask", <<id, throws>>)
    /\ UNCHANGED <<uiController, listeners, closures, dispatched, session, appPc,
                   renderedTasks, toasts, activeRequests, flows, epoch, loadToken, notice,
                   apiCall, overlay, serverVars, toaster>>

LocalToggleTask(id, throws) ==
    /\ SetLocalTaskManager(LocalToggleTaskOn(LocalTaskManager, id, throws))
    /\ lastCall' = Call("toggleTaskCompletion", <<id, throws>>)
    /\ UNCHANGED <<uiController, listeners, closures, dispatched, session, appPc,
                   renderedTasks, toasts, activeRequests, flows, epoch, loadToken, notice,
                   apiCall, overlay, serverVars, toaster>>

\* ------------------------------------------------ toastNotification.js
\* this.defaultDuration, and the default of error()
DefaultDuration == 5000
ErrorDuration == 0

ToastMethods == {"success", "error", "info", "warning"}

\* the duration argument: left out, or given
Durations == {"default", "0", "3000"}

\* the duration show() receives from success/error/info/warning
DurationOf(method, duration) ==
    IF duration = "0" THEN 0
    ELSE IF duration = "3000" THEN 3000
    ELSE IF method = "error" THEN ErrorDuration
    ELSE DefaultDuration

\* a pending setTimeout of the toast component: what it will run
Timer(run, id) == [run |-> run, id |-> id]

\* new ToastNotification(): container is #toast-container or null; shown,
\* exiting and dismissed describe the elements created so far
Toaster(container) ==
    [hasContainer |-> container, container |-> <<>>, toasts |-> {}, nextId |-> 1,
     timers |-> {}, shown |-> <<>>, exiting |-> {}, dismissed |-> {}]

\* the variable while no ToastNotification is under examination
NoToaster == Toaster(FALSE)

\* a toast that would never be dismissed by a timer
ToasterShowUntimed(t, type, duration) ==
    IF ~t.hasContainer THEN t
    ELSE [t EXCEPT !.nextId = @ + 1,
                   !.container = Append(@, t.nextId),
                   !.toasts = @ \cup {t.nextId},
                   !.shown = Append(@, [type |-> type, duration |-> duration])]

\* show({ type, title, message, duration })
ToasterShow(t, type, duration) ==
    IF ~t.hasContainer THEN t
    ELSE [t EXCEPT !.nextId = @ + 1,
                   !.container = Append(@, t.nextId),
                   !.toasts = @ \cup {t.nextId},
                   !.shown = Append(@, [type |-> type, duration |-> duration]),
                   !.timers = IF duration > 0 THEN @ \cup {Timer("dismiss", t.nextId)} ELSE @]

\* dismiss(id): the exit class now, the removal 300 ms later
ToasterDismiss(t, id) ==
    IF id \notin t.toasts THEN t
    ELSE [t EXCEPT !.exiting = @ \cup {id}, !.timers = @ \cup {Timer("remove", id)}]

\* the callback dismiss() scheduled: out of the container, out of the map
ToasterRemove(t, id) ==
    [t EXCEPT !.container = SelectSeq(@, LAMBDA e : e # id), !.toasts = @ \ {id}]

RECURSIVE ToasterDismissEach(_, _)
ToasterDismissEach(t, ids) ==
    IF ids = {} THEN t
    ELSE LET id == CHOOSE e \in ids : \A o \in ids : e <= o
         IN ToasterDismissEach(ToasterDismiss(t, id), ids \ {id})

\* dismissAll(): dismiss(id) for every entry of the map
ToasterDismissAll(t) == ToasterDismissEach(t, t.toasts)

\* what a timer runs when it fires
ToasterRun(t, timer) ==
    IF timer.run = "dismiss" THEN ToasterDismiss(t, timer.id) ELSE ToasterRemove(t, timer.id)

\* toast.success / error / info / warning (title, message, duration)
ToastShown(method, duration) ==
    /\ toaster.nextId <= MaxToastIds
    /\ toaster' = ToasterShow(toaster, method, DurationOf(method, duration))
    /\ UNCHANGED <<uiController, listeners, closures, dispatched, appVars, serverVars,
                   localStorage, lastCall>>

\* the user clicks the close button of a toast in the container
ToastCloseClicked(id) ==
    /\ \E i \in DOMAIN toaster.container : toaster.container[i] = id
    /\ toaster' = [ToasterDismiss(toaster, id) EXCEPT !.dismissed = @ \cup {id}]
    /\ UNCHANGED <<uiController, listeners, closures, dispatched, appVars, serverVars,
                   localStorage, lastCall>>

\* toast.dismissAll() is called
ToastDismissAllCalled ==
    /\ toaster' = [ToasterDismissAll(toaster) EXCEPT !.dismissed = @ \cup toaster.toasts]
    /\ UNCHANGED <<uiController, listeners, closures, dispatched, appVars, serverVars,
                   localStorage, lastCall>>

\* a pending timer of the component fires
ToastTimerFires(timer) ==
    /\ timer \in toaster.timers
    /\ toaster' = [ToasterRun(toaster, timer) EXCEPT !.timers = @ \ {timer}]
    /\ UNCHANGED <<uiController, listeners, closures, dispatched, appVars, serverVars,
                   localStorage, lastCall>>

\* ------------------------------------------- loadingIndicator.js, called directly
\* the calls made on the indicator so far
CallsSoFar == IF lastCall = NoCallYet THEN <<>> ELSE lastCall.args

LoadingCalled(op, li) ==
    /\ Len(CallsSoFar) < MaxCalls
    /\ SetLoading(li)
    /\ lastCall' = Call(op, Append(CallsSoFar, op))
    /\ UNCHANGED <<uiController, listeners, closures, dispatched, session, appPc,
                   taskManagerTasks, renderedTasks, toasts, flows, epoch, loadToken,
                   notice, apiCall, serverVars, localStorage, toaster>>

LoadingShowCalled == LoadingCalled("show", LoadingShow(Loading))

LoadingHideCalled == LoadingCalled("hide", LoadingHide(Loading))

LoadingForceHideCalled == LoadingCalled("forceHide", LoadingForceHide(Loading))

\* --------------------------------------------- errorHandler, called directly
\* new AppError(message, statusCode)
AppError(message, statusCode) ==
    [name |-> "Error", code |-> "", message |-> message, statusCode |-> statusCode,
     isOperational |-> TRUE]

ErrorMessages ==
    {<<>>, <<"task", "not", "found">>, <<"database", "unavailable">>,
     <<"cannot", "connect">>, <<"Unexpected", "token", "in", "JSON">>}

\* the errors next(err) can carry: AppErrors, errors of pg and jsonwebtoken,
\* body-parser's SyntaxError, any other exception
Errors ==
    [name : {"Error", "ValidationError", "JsonWebTokenError", "SyntaxError"},
     code : {"", "23505", "XX000"},
     message : ErrorMessages,
     statusCode : {0, 404, 500, 503},
     isOperational : BOOLEAN]

\* errorHandler(err, req, res, next) under config.nodeEnv
ErrorHandlerCalled(err) ==
    /\ lastCall' = Call("errorHandler", <<err, ErrorHandler(err, nodeEnv)>>)
    /\ UNCHANGED <<uiController, listeners, closures, dispatched, appVars, serverVars,
                   localStorage, toaster>>

\* -------------------------------- one add-task action, gateway and server
\* what taskManager.addTask sends: the session's token and the description
PostHeader == Bearer(GenerateToken(1, EmailA, 0))

PostBody(description) == TaskBody("string", description, "undefined", FALSE)

\* apiClient.post('api/tasks', { description }): _request up to the first fetch
PostCalled(description) ==
    /\ IsValidDescription(description)
    /\ lastCall = NoCallYet
    /\ apiCall.pc = "idle"
    /\ apiCall' = [NoCall EXCEPT !.pc = "fetching", !.sent = 1]
    /\ lastCall' = Call("post", <<"api/tasks", description>>)
    /\ UNCHANGED <<uiController, listeners, closures, dispatched, session, appPc,
                   taskManagerTasks, renderedTasks, toasts, activeRequests,
                   flows, epoch, loadToken, notice, overlay, serverVars,
                   localStorage, toaster>>

\* the request of the pending attempt reaches the server, which handles it
AttemptReachesServer ==
    /\ apiCall.pc = "fetching"
    /\ lastCall.op = "post"
    /\ CreateNewTask(PostHeader, PostBody(lastCall.args[2]))

\* the pending attempt fails before the server has seen the request
AttemptFailed ==
    /\ res = NoResponse
    /\ lastCall.op = "post"
    /\ FetchSettled(NoStatus)

\* what the client can be given for a response the server has sent: the
\* response, nothing (connection lost), or a 5xx of a proxy in between
Deliveries(status) == {status, NoStatus, 500, 503}

\* the pending attempt settles after the server has answered
AttemptAnswered(seen) ==
    /\ apiCall.pc = "fetching"
    /\ lastCall.op = "post"
    /\ res # NoResponse
    /\ seen \in Deliveries(res.status)
    /\ apiCall' = Settle(apiCall, seen)
    /\ res' = NoResponse
    /\ UNCHANGED <<users, tasks, userSeq, taskSeq, createdBy, now, nodeEnv, reqs>>
    /\ UNCHANGED <<uiController, listeners, closures, dispatched, session, appPc,
                   taskManagerTasks, renderedTasks, toasts, activeRequests,
                   flows, epoch, loadToken, notice, overlay, unitVars>>

\* ------------------------------------ toggles of one task, page and server
\* the task the user toggles, as createTask left it in the table
ToggledTask ==
    [id |-> 1, user_id |-> 1, description |-> DescMilk, completed |-> FALSE,
     created_at |-> 0, updated_at |-> 0]

\* the body of GET api/tasks for the user, as the client holds it
ServerList ==
    LET rows == GetTasksByUserId(ToggledTask.user_id)
    IN [i \in DOMAIN rows |-> TaskItem(rows[i].id, rows[i].completed)]

\* the toggle actions of the user so far
TogglesSoFar == IF lastCall.op = "toggle" THEN lastCall.args[1] ELSE 0

\* the user changes the checkbox of the task: the handler runs up to its PUT,
\* which carries the negation of the flag the snapshot holds at this moment
UserToggles(f) ==
    /\ TogglesSoFar < MaxToggles
    /\ ToggleStarted(f, ToggledTask.id)
    /\ lastCall' = Call("toggle", <<TogglesSoFar + 1>>)
    /\ UNCHANGED <<serverVars, localStorage, toaster>>

\* the server handles the PUT of a suspended toggle (verifyTaskOwnership,
\* updateTask) and the handler receives the updated row
ToggleAnswered(f) ==
    /\ f \in FlowIds
    /\ flows[f].kind = "toggle"
    /\ VerifyTaskOwnership(flows[f].taskId, ToggledTask.user_id)
    /\ tasks' = UpdateTask(flows[f].taskId,
                           TaskBody("undefined", <<>>, "boolean", flows[f].completed))
    /\ MutationReturned(f, "ok")
    /\ UNCHANGED <<users, userSeq, taskSeq, createdBy, now, nodeEnv, reqs, res>>
    /\ UNCHANGED unitVars

\* the GET of the handler's loadTasks() is answered with the table's rows
ToggleRefreshed(f) == RefreshReturns(f, "ok", ServerList)

\* ------------------------------------------------------------- the server
vars == <<serverVars, clientVars>>

\* the page after initializeApp found no stored token: the login form
IdlePage ==
    /\ uiController = NoController
    /\ listeners = [key \in EventKeys |-> {}]
    /\ closures = [key \in EventKeys |-> 0]
    /\ dispatched = NoDispatch
    /\ session = LoggedOut
    /\ appPc = "idle"
    /\ renderedTasks = <<>>
    /\ toasts = <<>>
    /\ activeRequests = 0
    /\ flows = [f \in FlowIds |-> IdleFlow]
    /\ epoch = 0
    /\ loadToken = 0
    /\ notice = NoNotice
    /\ apiCall = NoCall

ClientInit ==
    /\ IdlePage
    /\ taskManagerTasks = <<>>
    /\ localStorage = EmptyStorage
    /\ overlay = "hidden"
    /\ lastCall = NoCallYet
    /\ toaster = NoToaster

\* a fresh deployment: empty tables
ServerInit ==
    /\ users = {}
    /\ tasks = {}
    /\ userSeq = 0
    /\ taskSeq = 0
    /\ createdBy = [i \in 1..(MaxTasks + 1) |-> 0]
    /\ now = 0
    /\ nodeEnv = "development"
    /\ reqs = [r \in Slots |-> IdleRequest]
    /\ res = NoResponse

Init == ServerInit /\ ClientInit

\* the deployment after two registrations
UserA == [id |-> 1, email |-> EmailA, password_hash |-> HashPassword(PwGood)]
UserB == [id |-> 2, email |-> EmailB, password_hash |-> HashPassword(PwGood)]

ServerInitTasks ==
    /\ users = {UserA, UserB}
    /\ tasks = {}
    /\ userSeq = 2
    /\ taskSeq = 0
    /\ createdBy = [i \in 1..(MaxTasks + 1) |-> 0]
    /\ now = 0
    /\ nodeEnv = "development"
    /\ reqs = [r \in Slots |-> IdleRequest]
    /\ res = NoResponse

InitTasks == ServerInitTasks /\ ClientInit

NextTasks ==
    \/ \E h \in TaskHeaders : GetTasks(h)
    \/ \E h \in TaskHeaders, b \in CreateBodies : CreateNewTask(h, b)
    \/ \E r \in Slots, h \in TaskHeaders, id \in TaskIds, b \in UpdateBodies : PutTask(r, h, id, b)
    \/ \E r \in Slots : UpdateExistingTask(r)
    \/ \E r \in Slots, h \in TaskHeaders, id \in TaskIds : DeleteTaskRequest(r, h, id)
    \/ \E r \in Slots : DeleteExistingTask(r)
    \/ Sent

SpecTasks == InitTasks /\ [][NextTasks]_vars

\* registration, login and identity, from a fresh deployment
NextAuth ==
    \/ \E r \in Slots, c \in Credentials : Register(r, c)
    \/ \E r \in Slots : RegisterCreateUser(r)
    \/ \E c \in Credentials : Login(c)
    \/ \E h \in Headers : GetCurrentUser(h)
    \/ Tick
    \/ Sent

SpecAuth == Init /\ [][NextAuth]_vars

\* the protected routes under every kind of Authorization header, as time passes
GuardCreateBodies == {TaskBody("string", DescMilk, "undefined", FALSE)}
GuardUpdateBodies == {TaskBody("undefined", <<>>, "boolean", TRUE)}

NextGuard ==
    \/ \E h \in Headers : GetCurrentUser(h)
    \/ \E h \in Headers : GetTasks(h)
    \/ \E h \in Headers, b \in GuardCreateBodies : CreateNewTask(h, b)
    \/ \E h \in Headers, id \in TaskIds, b \in GuardUpdateBodies : PutTask(1, h, id, b)
    \/ UpdateExistingTask(1)
    \/ \E h \in Headers, id \in TaskIds : DeleteTaskRequest(1, h, id)
    \/ DeleteExistingTask(1)
    \/ Tick
    \/ Sent

SpecGuard == InitTasks /\ [][NextGuard]_vars

\* the client over a page session of logins and logouts
InitApp == ServerInitTasks /\ ClientInit

NextApp ==
    \/ \E success \in BOOLEAN : HandleAuthSuccess(success)
    \/ \E outcome \in LoadOutcomes, list \in TaskLists : LoadTasksReturns(outcome, list)
    \/ HandleLogout
    \/ HandleAuthenticationError
    \/ \E key \in EventKeys : Dispatch(key)
    \/ \E i \in 1..MaxToasts : ToastTimeout(i)
    \/ \E i \in 1..MaxToasts : ToastRemoved(i)
    \/ Settled

SpecApp == InitApp /\ [][NextApp]_vars

\* one UIController constructed over the elements of a visible page, and the
\* calls its owner can make on it
InitController ==
    /\ ServerInitTasks
    /\ uiController = NewController
    /\ listeners = [key \in EventKeys |-> {}]
    /\ closures = [key \in EventKeys |-> 0]
    /\ dispatched = NoDispatch
    /\ session = ShowApp([LoggedOut EXCEPT !.storedToken = TRUE, !.apiToken = TRUE])
    /\ appPc = "idle"
    /\ taskManagerTasks = <<>>
    /\ renderedTasks = <<>>
    /\ toasts = <<>>
    /\ activeRequests = 0
    /\ flows = [f \in FlowIds |-> IdleFlow]
    /\ epoch = 0
    /\ loadToken = 0
    /\ notice = NoNotice
    /\ apiCall = NoCall
    /\ localStorage = EmptyStorage
    /\ overlay = "hidden"
    /\ lastCall = NoCallYet
    /\ toaster = NoToaster

NextController ==
    \/ \E h \in Handlers : BindAddTask(h)
    \/ \E h \in Handlers : BindDeleteTask(h)
    \/ \E h \in Handlers : BindToggleTask(h)
    \/ SetupKeyboardNavigation
    \/ Cleanup
    \/ \E key \in EventKeys : Dispatch(key)

SpecController == InitController /\ [][NextController]_vars

\* the client with its task handlers: the user logs in and out, reloads the
\* page, adds, deletes and toggles tasks, and every request is answered with
\* success, with 401 or with another failure
SubmittedDescriptions == {DescMilk, DescBlank}

NextClient ==
    \/ \E success \in BOOLEAN : HandleAuthSuccess(success)
    \/ AuthFormRejected
    \/ \E outcome \in LoadOutcomes, list \in TaskLists : LoadTasksReturns(outcome, list)
    \/ HandleLogout
    \/ PageLoad
    \/ \E f \in ClientFlows, d \in SubmittedDescriptions : AddTaskSubmitted(f, d)
    \/ \E f \in ClientFlows, id \in TaskIds : DeleteTaskClicked(f, id)
    \/ \E f \in ClientFlows, id \in TaskIds : ToggleTaskChanged(f, id)
    \/ \E f \in ClientFlows, outcome \in LoadOutcomes : MutationReturns(f, outcome)
    \/ \E f \in ClientFlows, outcome \in LoadOutcomes, list \in TaskLists :
           RefreshReturns(f, outcome, list)
    \/ \E i \in 1..MaxToasts : ToastTimeout(i)
    \/ \E i \in 1..MaxToasts : ToastRemoved(i)
    \/ Settled

SpecClient == InitApp /\ [][NextClient]_vars

\* one call of the API gateway after another, each attempt answered with any
\* status or failing without one
NextGateway ==
    \/ RequestCalled
    \/ \E status \in Statuses \cup {NoStatus} : FetchSettled(status)
    \/ SleepElapsed
    \/ CallEnded

SpecGateway == InitApp /\ [][NextGateway]_vars

\* the AuthService over a localStorage that may already hold a token and a
\* user, called in any order with any arguments
StoredTokens == {Null, "", "t1"}

InitSession ==
    /\ ServerInitTasks
    /\ IdlePage
    /\ taskManagerTasks = <<>>
    /\ overlay = "hidden"
    /\ lastCall = NoCallYet
    /\ toaster = NoToaster
    /\ \E token \in StoredTokens, user \in {JsNull, Js("object", "u1")} :
          localStorage = [authToken |-> token,
                          currentUser |-> IF user = JsNull THEN Null ELSE JsonStringify(user),
                          tasks |-> <<>>]

NextSession ==
    \/ \E token \in TokenValues, throws \in BOOLEAN : SetToken(token, throws)
    \/ \E user \in UserValues, throws \in BOOLEAN : SetUser(user, throws)
    \/ \E op \in {"login", "register"}, ok \in BOOLEAN, token \in TokenValues,
          user \in UserValues, throws \in BOOLEAN :
           AuthServiceLogin(op, ok, token, user, throws)
    \/ AuthServiceLogout

SpecSession == InitSession /\ [][NextSession]_vars

\* the TaskManager constructed without an API client over an empty
\* localStorage, then called in any order; setItem may raise at any call
InitLocal ==
    /\ ServerInitTasks
    /\ IdlePage
    /\ localStorage = EmptyStorage
    /\ taskManagerTasks = StorageLoadTasks(localStorage)
    /\ overlay = "hidden"
    /\ lastCall = NoCallYet
    /\ toaster = NoToaster

NextLocal ==
    \/ \E d \in Descriptions, time \in 0..1, throws \in BOOLEAN : LocalAddTask(d, time, throws)
    \/ \E id \in 1..(MaxTasks + 1), throws \in BOOLEAN : LocalDeleteTask(id, throws)
    \/ \E id \in 1..(MaxTasks + 1), throws \in BOOLEAN : LocalToggleTask(id, throws)

SpecLocal == InitLocal /\ [][NextLocal]_vars

\* adding tasks: the logged-in page submits descriptions to its add handler,
\* and the server is sent POST /tasks with any body, by this client or another
AddedLists == {<<>>, <<TaskItem(1, FALSE)>>}

\* the descriptions typed or sent: text, padded text, spaces, nothing
AddDescriptions == Descriptions \cup {<<>>}

AddBodies ==
    {TaskBody("string", d, "undefined", FALSE) : d \in AddDescriptions} \cup {NoTaskBody}

AddHeaders == {Bearer(GenerateToken(UserA.id, UserA.email, 0)), NoHeader}

NextAdd ==
    \/ HandleAuthSuccess(TRUE)
    \/ \E outcome \in LoadOutcomes, list \in AddedLists : LoadTasksReturns(outcome, list)
    \/ \E f \in ClientFlows, d \in AddDescriptions : AddTaskSubmitted(f, d)
    \/ \E f \in ClientFlows, outcome \in LoadOutcomes : MutationReturns(f, outcome)
    \/ \E f \in ClientFlows, outcome \in LoadOutcomes, list \in AddedLists :
           RefreshReturns(f, outcome, list)
    \/ \E i \in 1..MaxToasts : ToastTimeout(i)
    \/ \E i \in 1..MaxToasts : ToastRemoved(i)
    \/ Settled
    \/ \E h \in AddHeaders, b \in AddBodies : CreateNewTask(h, b)
    \/ Sent

SpecAdd == InitApp /\ [][NextAdd]_vars

\* a ToastNotification on a page with or without #toast-container: toasts
\* are shown, closed by the user and dismissed together, and timers fire
InitToaster ==
    /\ ServerInitTasks
    /\ IdlePage
    /\ taskManagerTasks = <<>>
    /\ localStorage = EmptyStorage
    /\ overlay = "hidden"
    /\ lastCall = NoCallYet
    /\ \E container \in BOOLEAN : toaster = Toaster(container)

ToastTimers == {Timer(run, id) : run \in {"dismiss", "remove"}, id \in 1..MaxToastIds}

NextToaster ==
    \/ \E method \in ToastMethods, duration \in Durations : ToastShown(method, duration)
    \/ \E id \in 1..MaxToastIds : ToastCloseClicked(id)
    \/ ToastDismissAllCalled
    \/ \E timer \in ToastTimers : ToastTimerFires(timer)

SpecToaster == InitToaster /\ [][NextToaster]_vars

\* the browser runs every timer that is due
SpecToasterFair ==
    SpecToaster /\ \A timer \in ToastTimers : WF_vars(ToastTimerFires(timer))

\* a LoadingIndicator on a page with or without #loading-overlay, then any
\* calls of show, hide and forceHide
InitLoading ==
    /\ ServerInitTasks
    /\ IdlePage
    /\ taskManagerTasks = <<>>
    /\ localStorage = EmptyStorage
    /\ overlay \in {"missing", "hidden"}
    /\ lastCall = NoCallYet
    /\ toaster = NoToaster

NextLoading ==
    \/ LoadingShowCalled
    \/ LoadingHideCalled
    \/ LoadingForceHideCalled

SpecLoading == InitLoading /\ [][NextLoading]_vars

\* the error-handling middleware in each environment mode, given any error
InitErrors ==
    /\ users = {UserA, UserB}
    /\ tasks = {}
    /\ userSeq = 2
    /\ taskSeq = 0
    /\ createdBy = [i \in 1..(MaxTasks + 1) |-> 0]
    /\ now = 0
    /\ nodeEnv \in {"development", "test", "production"}
    /\ reqs = [r \in Slots |-> IdleRequest]
    /\ res = NoResponse
    /\ ClientInit

NextErrors == \E err \in Errors : ErrorHandlerCalled(err)

SpecErrors == InitErrors /\ [][NextErrors]_vars

\* one add-task action of a logged-in user against the server: each attempt
\* of the gateway may fail on the way there, or be handled and its response
\* delivered, lost or replaced
NextPost ==
    \/ \E d \in Descriptions : PostCalled(d)
    \/ AttemptReachesServer
    \/ AttemptFailed
    \/ \E seen \in Statuses \cup {NoStatus} : AttemptAnswered(seen)
    \/ SleepElapsed
    \/ CallEnded

SpecPost == InitApp /\ [][NextPost]_vars

\* a user with one open task logs in and toggles it, at most MaxToggles
\* times, without waiting for the handlers to finish
InitToggle ==
    /\ users = {UserA, UserB}
    /\ tasks = {ToggledTask}
    /\ userSeq = 2
    /\ taskSeq = 1
    /\ createdBy = [i \in 1..(MaxTasks + 1) |-> IF i = 1 THEN 1 ELSE 0]
    /\ now = 0
    /\ nodeEnv = "development"
    /\ reqs = [r \in Slots |-> IdleRequest]
    /\ res = NoResponse
    /\ ClientInit

NextToggle ==
    \/ HandleAuthSuccess(TRUE)
    \/ LoadTasksReturns("ok", ServerList)
    \/ \E f \in FlowIds : UserToggles(f)
    \/ \E f \in FlowIds : ToggleAnswered(f)
    \/ \E f \in FlowIds : ToggleRefreshed(f)
    \/ \E i \in 1..MaxToasts : ToastTimeout(i)
    \/ \E i \in 1..MaxToasts : ToastRemoved(i)
    \/ Settled

SpecToggle == InitToggle /\ [][NextToggle]_vars


\* ================================================================ properties
MutatingRoutes == {"PUT /tasks/:id", "DELETE /tasks/:id"}

\* a response leaves in this step
Answered == res = NoResponse /\ res' # NoResponse

RowsOf(list) == {list[i] : i \in DOMAIN list}

\* the request answered by q came with an identity that does not own the task
\* it names, which is in the table
ByNonOwner(q) ==
    /\ q.route \in MutatingRoutes
    /\ q.user # NoUser
    /\ \E t \in tasks : t.id = q.taskId /\ t.user_id # q.user.userId

\* C1 (as amended): a DELETE, or a PUT whose body passes validateTaskUpdate,
\* sent by an authenticated user on a task another user owns is answered 403 and
\* the step leaves the tasks table as it was.
C1_NonOwnerForbidden ==
    [][(Answered /\ ByNonOwner(res')
          /\ (res'.route = "PUT /tasks/:id" => ValidateTaskUpdate(res'.body) = 0))
       => (res'.status = 403 /\ tasks' = tasks)]_vars

\* C1 witness: user B's PUT on a task of user A has been answered 403
C1_Witness ==
    /\ res.route = "PUT /tasks/:id"
    /\ res.status = 403
    /\ \E t \in tasks : t.id = res.taskId /\ t.user_id # res.user.userId /\ res.user # NoUser

\* C1 as stated: every PUT or DELETE by a non-owner is answered 403 and leaves
\* the table as it was (a PUT with an invalid body is answered 400).
C1_AsStated ==
    [][(Answered /\ ByNonOwner(res')) => (res'.status = 403 /\ tasks' = tasks)]_vars

\* C2: a request that passed verifyTaskOwnership applies its mutation to a task
\* that still exists and is owned by the caller, under any interleaving.
C2_MutationFindsOwnedTask ==
    [][\A r \in Slots :
          (reqs[r].pc = "owner" /\ reqs'[r].pc = "idle")
          => \E t \in tasks : t.id = reqs[r].taskId /\ t.user_id = reqs[r].user.userId]_vars

\* C3: an authenticated, well-formed PUT or DELETE on an id no row ever had is
\* answered 404.
C3_MissingTaskIs404 ==
    (/\ res.route \in MutatingRoutes
     /\ res.user # NoUser
     /\ (res.route = "PUT /tasks/:id" => ValidateTaskUpdate(res.body) = 0)
     /\ res.taskId \notin 1..taskSeq)
    => res.status = 404

\* C4: the list sent for a user holds exactly the rows of the table owned by
\* that user, each once, and none of them was created by anybody else.
C4_ListIsOwnersTasks ==
    (res.route = "GET /tasks" /\ res.status = 200)
    => /\ RowsOf(res.resTasks) = {t \in tasks : t.user_id = res.user.userId}
       /\ Len(res.resTasks) = Cardinality(RowsOf(res.resTasks))
       /\ \A t \in RowsOf(res.resTasks) : createdBy[t.id] = res.user.userId

\* C4 witness: a non-empty list was sent while the other user has a task too
C4_Witness ==
    /\ res.route = "GET /tasks"
    /\ res.status = 200
    /\ Len(res.resTasks) > 0
    /\ \E t \in tasks : t.user_id # res.user.userId

ProtectedRoutes ==
    {"GET /tasks", "POST /tasks", "PUT /tasks/:id", "DELETE /tasks/:id", "GET /auth/me"}

\* the header is absent, empty, of another scheme, or its token is malformed,
\* signed with another key, or expired at time t
LacksValidBearer(h, t) ==
    \/ ~h.present
    \/ h.first7 # "Bearer "
    \/ h.rest.kind # "jwt"
    \/ h.rest.sig # "server"
    \/ t >= h.rest.exp

\* C5: a request to a protected route without a valid bearer token is answered
\* 401 with no identity attached, the handler behind the guard never starts (no
\* request with such a header is ever suspended in a controller), and the step
\* changes no task and no user.
C5_GuardRejects ==
    [][/\ \A r \in Slots :
            (reqs[r].pc = "idle" /\ reqs'[r].pc # "idle" /\ reqs'[r].route \in ProtectedRoutes)
            => (~LacksValidBearer(reqs'[r].header, now) /\ reqs'[r].user # NoUser)
       /\ (Answered /\ reqs' = reqs /\ res'.route \in ProtectedRoutes
             /\ LacksValidBearer(res'.header, now))
          => (res'.status = 401 /\ res'.user = NoUser /\ tasks' = tasks /\ users' = users)]_vars

\* C5 witness: a DELETE carrying an expired session token and naming a task
\* that exists has been answered 401
C5_Witness ==
    /\ res.route = "DELETE /tasks/:id"
    /\ res.status = 401
    /\ res.header.first7 = "Bearer "
    /\ res.header.rest.sig = "server"
    /\ now >= res.header.rest.exp
    /\ \E t \in tasks : t.id = res.taskId

\* C6: GET /auth/me with a valid bearer token of a user who exists is answered 200.
C6_MeAnswers200 ==
    (/\ res.route = "GET /auth/me"
     /\ res.user # NoUser
     /\ FindUserById(res.user.userId) # {})
    => res.status = 200

\* the step answers a registration whose password passes isValidPassword
AnswersRegistration ==
    Answered /\ res'.route = "POST /auth/register" /\ IsValidPassword(res'.cred.password)

\* 201 exactly when the e-mail had no user, and then exactly one row is added;
\* 409 otherwise, and then nothing is added; no two rows share an e-mail
RegistersOnce ==
    /\ IF EmailTaken(res'.cred.email)
       THEN res'.status = 409 /\ users' = users
       ELSE /\ res'.status = 201
            /\ \E u \in users' : u.email = res'.cred.email /\ u \notin users
                                 /\ users' = users \cup {u}
    /\ \A u, v \in users' : u.email = v.email => u = v

\* C7 (as amended): for any e-mail of valid format, over any interleaving of
\* registrations with a valid password, the attempt answered while the e-mail
\* has no user is answered 201 and creates it, every other one is answered 409
\* and creates nothing, and no two user rows ever share an e-mail.
C7_RegistersOnce ==
    [][(AnswersRegistration /\ IsValidEmail(res'.cred.email)) => RegistersOnce]_vars

\* C7 witness: two registrations of one e-mail are in flight together and the
\* first has been answered 201 while the second waits to insert
C7_Witness ==
    /\ res.route = "POST /auth/register"
    /\ res.status = 201
    /\ \E r \in Slots : reqs[r].pc = "hashing" /\ reqs[r].cred.email = res.cred.email

\* C7 as stated: the same for any e-mail at all (one that fails the format
\* check is answered 400 every time).
C7_AsStated ==
    [][AnswersRegistration => RegistersOnce]_vars

\* the body the client sends to flip a task's completed flag
ToggleBody(t) == TaskBody("undefined", <<>>, "boolean", ~t.completed)

Toggled(t) == UpdatedRow(t, BuildUpdates(ToggleBody(t)))

\* C8: a created task has the trimmed description and completed = false; two
\* toggles in a row give back the flag (and leave the description); and the list
\* read for the owner in the state a create, update or delete leaves holds the
\* created row, the updated row as sent, and not the deleted row.
C8_RoundTrip ==
    LET list == RowsOf(GetTasksByUserId(res.user.userId)) IN
    /\ (res.route = "POST /tasks" /\ res.status = 201)
       => /\ res.resTasks[1].description = Trim(res.body.description)
          /\ res.resTasks[1].completed = FALSE
          /\ res.resTasks[1] \in list
    /\ (res.route = "PUT /tasks/:id" /\ res.status = 200)
       => /\ res.resTasks[1] \in list
          /\ res.resTasks[1].id = res.taskId
          /\ res.body.complType = "boolean" => res.resTasks[1].completed = res.body.completed
          /\ res.body.descType = "string"
             => res.resTasks[1].description = Trim(res.body.description)
    /\ (res.route = "DELETE /tasks/:id" /\ res.status = 200)
       => \A t \in list : t.id # res.taskId
    /\ \A t \in tasks :
          /\ Toggled(t).completed # t.completed
          /\ Toggled(Toggled(t)).completed = t.completed
          /\ Toggled(Toggled(t)).description = t.description

\* C8 witness: a task sent with padding around its description was created, and
\* a completed task is in the table (a toggle has been applied)
C8_Witness ==
    /\ res.route = "PUT /tasks/:id"
    /\ res.status = 200
    /\ res.resTasks[1].completed
    /\ \E t \in tasks : t.description = Trim(DescPad) /\ t.description # DescPad

\* C9: for every event key, one listener is attached while a controller exists
\* and the login has completed, and none once handleLogout has dropped the
\* controller; so a second login ends with one again.
C9_OneListenerPerLogin ==
    /\ (uiController.exists /\ appPc = "idle")
       => \A key \in EventKeys : Cardinality(listeners[key]) = 1
    /\ ~uiController.exists
       => \A key \in EventKeys : listeners[key] = {}

\* C10: whatever is called on a controller, and however often, at most one
\* listener is attached per event key, and the listener attached for a bound
\* event calls the handler that was bound last.
C10_BindReplaces ==
    /\ \A key \in EventKeys : Cardinality(listeners[key]) <= 1
    /\ \A l \in listeners["form.submit"] : l.handler = uiController.addTaskHandler
    /\ \A l \in listeners["taskList.click"] : l.handler = uiController.deleteTaskHandler
    /\ \A l \in listeners["taskList.change"] : l.handler = uiController.toggleTaskHandler

\* ---- C11
\* C11: an operation of the client that ended with a request answered 401
\* (the list load of a login or page load, the refresh of a task handler, a
\* create, an update or a delete) ran handleAuthenticationError: the token in
\* localStorage and the token of the API client are gone, and no error toast
\* displayed for it is in the container.
C11_UnauthorizedForcesLogout ==
    notice.answer = "unauthorized" =>
        /\ notice.expired
        /\ ~session.storedToken
        /\ ~session.apiToken
        /\ \A i \in DOMAIN toasts : toasts[i].type = "error" => toasts[i].exiting

C11_Witness ==
    /\ notice.answer = "unauthorized"
    /\ notice.op = "toggle"
    /\ notice.ok
    /\ \E i \in DOMAIN toasts : toasts[i].type = "error"

\* ---- C12
\* C12: when handleAuthenticationError has run, the task manager holds no
\* task and no task is rendered in the task list.
C12_ForcedLogoutDiscardsSnapshot ==
    notice.expired => taskManagerTasks = <<>> /\ renderedTasks = <<>>

\* ---- C13
\* C13: when handleAuthenticationError has run in an operation, that operation
\* leaves the task app hidden and the login form shown, whichever request was
\* answered 401 (the list load of a login, of a registration or of a page load
\* included); and a hidden app without a stored token stays hidden until a
\* login or registration succeeds.
C13_UnauthenticatedAfter401 ==
    /\ [](notice.expired => session.appHidden /\ ~session.authHidden)
    /\ [][~session.storedToken /\ session.appHidden /\ epoch' = epoch
            => session'.appHidden]_vars

\* ---- C14
\* C14: the step in which a login or registration succeeds issues GET
\* api/tasks with the new token and leaves the app hidden; the app is shown by
\* the step that receives the answer, and a list it received is then both the
\* snapshot and the rendered list.
C14_LoginLoadsList ==
    /\ [][epoch' # epoch =>
            appPc' = "loadTasks" /\ loadToken' = epoch' /\ session'.appHidden]_vars
    /\ [][appPc = "loadTasks" /\ appPc' = "idle" /\ notice'.answer = "ok" =>
            /\ ~session'.appHidden
            /\ taskManagerTasks' = renderedTasks'
            /\ taskManagerTasks' \in TaskLists]_vars

\* ---- C15
\* C15: when an operation ran handleAuthenticationError, every toast of the
\* container other than the session-expired warning is being dismissed, the
\* warning is the last toast, and it is the last toast the operation displayed.
C15_ExpiryWarningStandsAlone ==
    notice.expired =>
        /\ \A i \in DOMAIN toasts :
              toasts[i].exiting \/ toasts[i] = Toast("warning", "Session expired")
        /\ Len(toasts) > 0
        /\ toasts[Len(toasts)] = Toast("warning", "Session expired")
        /\ notice.toasts[Len(notice.toasts)] = "Session expired"

C17_OneNotificationPerSuccess ==
    /\ notice.ok
    /\ ~notice.expired
    /\ notice.op \in {"login", "logout", "add", "delete", "toggle"}
    => Len(notice.toasts) + Len(notice.inline) = 1

C19_BoundedBackoff ==
    /\ apiCall.sent <= ApiMaxRetries + 1
    /\ Len(apiCall.waits) <= ApiMaxRetries
    /\ \A k \in 0..(Len(apiCall.waits) - 1) : apiCall.waits[k + 1] = ApiRetryDelay * 2^k
    /\ apiCall.pc = "thrown" =>
          /\ apiCall.thrown = apiCall.errors[Len(apiCall.errors)]
          /\ apiCall.thrown.attempt = apiCall.sent - 1
    /\ apiCall.pc = "sleeping" => Len(apiCall.waits) = apiCall.sent
    /\ apiCall.pc = "fetching" => Len(apiCall.waits) = apiCall.sent - 1

C19_Witness ==
    /\ apiCall.pc = "thrown"
    /\ apiCall.sent = ApiMaxRetries + 1
    /\ apiCall.waits = <<1000, 2000, 4000>>
    /\ apiCall.thrown = ApiError(503, ApiMaxRetries)

\* ---- C20
SuccessTitles == {"Task added", "Task deleted", "Task completed", "Task reopened"}

\* C20: a task handler issues the GET of its refresh only in the step that
\* received the answer to its mutation, and that step neither renders the
\* task list nor shows a toast; and a handler that displayed its success
\* toast had its refresh answered with a list and rendered that list.
C20_MutateRefreshRenderNotify ==
    /\ [][\A f \in FlowIds :
            flows'[f].pc = "refreshing" /\ flows[f].pc # "refreshing" =>
                flows[f].pc = "mutating"]_vars
    /\ [][\A f \in FlowIds :
            flows[f].pc = "mutating" /\ flows'[f].pc = "refreshing" =>
                renderedTasks' = renderedTasks /\ toasts' = toasts]_vars
    /\ [](/\ notice.op \in {"add", "delete", "toggle"}
          /\ \E i \in DOMAIN notice.toasts : notice.toasts[i] \in SuccessTitles
          => /\ notice.answer = "ok"
             /\ uiController.exists
             /\ renderedTasks = taskManagerTasks)

\* ---- C21
\* C21: whatever was called on the AuthService, isAuthenticated() is true
\* exactly when localStorage holds a token that is not the empty string; and
\* right after logout() getToken() and getCurrentUser() answer null and
\* isAuthenticated() is false.
C21_AuthenticatedIffToken ==
    /\ IsAuthenticated(localStorage) <=> localStorage.authToken \notin {Null, ""}
    /\ lastCall.op = "logout" =>
          /\ GetToken(localStorage) = Null
          /\ GetStoredUser(localStorage) = JsNull
          /\ ~IsAuthenticated(localStorage)
          /\ localStorage.currentUser = Null

C21_Witness ==
    /\ lastCall.op = "logout"
    /\ localStorage.authToken = Null
    /\ localStorage.currentUser = Null
    /\ localStorage.tasks = <<>>
    /\ ~IsAuthenticated(localStorage)

\* ---- C22
\* C22: after addTask, deleteTask or toggleTaskCompletion of a TaskManager
\* without an API client, the list StorageManager.loadTasks() reads back from
\* localStorage is the in-memory list: the same tasks in the same order with
\* the same id, description, completed flag and creation time.
C22_StorageEqualsMemory ==
    lastCall.op \in {"addTask", "deleteTask", "toggleTaskCompletion"} =>
        StorageLoadTasks(localStorage) = taskManagerTasks

\* ---- C23
\* a description that is empty or holds nothing but whitespace
IsBlank(description) == \A i \in DOMAIN description : description[i] = " "

\* C23: adding a task with an empty or whitespace-only description changes
\* nothing: the client's add starts no request and leaves the task list, the
\* display and localStorage alone, and the server answers POST /tasks with 400
\* and inserts no row.
C23_BlankDescriptionRejected ==
    /\ [][\A f \in FlowIds, d \in AddDescriptions :
             AddTaskSubmitted(f, d) /\ IsBlank(d) =>
                 /\ flows' = flows
                 /\ apiCall' = apiCall
                 /\ activeRequests' = activeRequests
                 /\ taskManagerTasks' = taskManagerTasks
                 /\ renderedTasks' = renderedTasks
                 /\ localStorage' = localStorage]_vars
    /\ [][\A h \in AddHeaders, b \in AddBodies :
             /\ CreateNewTask(h, b)
             /\ AuthenticateToken(h, now).next
             /\ b.descType = "string"
             /\ IsBlank(b.description)
             => res'.status = 400 /\ tasks' = tasks /\ taskSeq' = taskSeq]_vars

\* a blank description was submitted on the page and another sent to the server
C23_Witness ==
    /\ notice.op = "add" /\ ~notice.ok /\ notice.toasts = <<>>
    /\ res.route = "POST /tasks" /\ res.status = 400
    /\ res.body.descType = "string" /\ IsBlank(res.body.description)
    /\ res.user.userId # 0

\* ---- C24
ToastGone(id) ==
    /\ id \notin toaster.toasts
    /\ \A i \in DOMAIN toaster.container : toaster.container[i] # id

ToastPresent(id) ==
    /\ id \in toaster.toasts
    /\ \E i \in DOMAIN toaster.container : toaster.container[i] = id

\* C24: a toast shown with a positive duration (success, info and warning by
\* default) is eventually out of the container and out of the map although the
\* user does nothing; an error toast shown with its default duration stays in
\* both until the close button or dismissAll has dismissed it.
C24_TimedToastsGoErrorsStay ==
    /\ \A id \in 1..MaxToastIds :
          (id \in DOMAIN toaster.shown /\ toaster.shown[id].duration > 0) ~> ToastGone(id)
    /\ [](\A id \in DOMAIN toaster.shown :
             /\ toaster.shown[id].type = "error"
             /\ toaster.shown[id].duration = ErrorDuration
             /\ id \notin toaster.dismissed
             => ToastPresent(id) /\ id \notin toaster.exiting)

\* a success toast shown with the default duration has gone on its own, and
\* an error toast shown before it is still there
C24_Witness ==
    /\ Len(toaster.shown) >= 2
    /\ toaster.shown[1].type = "error" /\ toaster.shown[1].duration = ErrorDuration
    /\ toaster.shown[2].type = "success" /\ toaster.shown[2].duration = DefaultDuration
    /\ toaster.dismissed = {}
    /\ ToastGone(2)
    /\ ToastPresent(1)

\* ---- C25
\* C25: after any calls of show, hide and forceHide the counter is not
\* negative and the overlay is hidden exactly when the counter is 0; a hide
\* that leaves shows outstanding keeps the overlay visible, and the hide that
\* answers the last outstanding show hides it.
C25_OverlayFollowsCounter ==
    /\ [](activeRequests >= 0)
    /\ [](overlay = "shown" <=> activeRequests > 0)
    /\ [][lastCall'.op = "hide" /\ activeRequests > 1 =>
              overlay' = "shown" /\ activeRequests' = activeRequests - 1]_vars
    /\ [][lastCall'.op = "hide" /\ activeRequests = 1 =>
              overlay' = "hidden" /\ activeRequests' = 0]_vars

\* two shows, then one hide: the overlay is still visible
C25_Witness ==
    /\ lastCall.op = "hide"
    /\ lastCall.args = <<"show", "show", "hide">>
    /\ overlay = "shown"
    /\ activeRequests = 1

\* ---- C26
\* C26: an operational error (an AppError, raised with its status code) is
\* answered with its own status code and its own message in every environment
\* mode, whatever its message says; a message is replaced only for an error
\* that is not operational, and only in production.
C26_OperationalNeverMasked ==
    lastCall.op = "errorHandler" =>
        LET err == lastCall.args[1]
            out == lastCall.args[2]
        IN /\ err = AppError(err.message, err.statusCode) /\ err.statusCode # 0
              /\ err.message # <<>>
              => out.status = err.statusCode /\ ~out.generic
           /\ out.generic /\ err.message # <<>>
              => ~err.isOperational /\ nodeEnv = "production"

\* ---- C27
\* C27: while a task exists its id and its owner stay what createTask made
\* them, and an id is never given to a second task; the step of an update
\* changes nothing but description, completed and updated_at of the one row
\* it names, and no other row.
C27_IdAndOwnerFixed ==
    /\ [](\A t \in tasks : createdBy[t.id] = t.user_id /\ t.id <= taskSeq)
    /\ [][\A t \in tasks : \A u \in tasks' :
             u.id = t.id => u.user_id = t.user_id /\ u.created_at = t.created_at]_vars
    /\ [][res'.route = "PUT /tasks/:id" /\ res' # res =>
             /\ \A t \in tasks : t.id # res'.taskId => t \in tasks'
             /\ \A u \in tasks' : \E t \in tasks :
                   /\ u.id = t.id
                   /\ u = [t EXCEPT !.description = u.description,
                                    !.completed = u.completed,
                                    !.updated_at = u.updated_at]]_vars

\* an update has set the completed flag of one of two tasks
C27_Witness ==
    /\ res.route = "PUT /tasks/:id"
    /\ res.status = 200
    /\ Cardinality(tasks) = 2
    /\ \E t \in tasks : t.id = res.taskId /\ t.completed
    /\ \E t \in tasks : t.id # res.taskId /\ ~t.completed

\* ---- C28
\* C28: one add-task action inserts at most one task, also when an attempt
\* the server handled had its response lost or replaced by a 5xx: an attempt
\* is never sent again after the server has handled one.
C28_OneAddOneTask ==
    lastCall.op = "post" => Cardinality(tasks) <= 1

\* ---- C29
\* C29: logout leaves the task snapshot and the displayed list empty, and
\* while nobody is logged in they stay empty, whatever response arrives: a
\* list requested before the logout changes neither.
C29_EmptyWhileLoggedOut ==
    /\ [](notice.op = "logout" => taskManagerTasks = <<>> /\ renderedTasks = <<>>)
    /\ [][/\ session.appHidden /\ session'.appHidden
          /\ taskManagerTasks = <<>> /\ renderedTasks = <<>>
          => taskManagerTasks' = <<>> /\ renderedTasks' = <<>>]_vars

\* ---- C30
\* C30: once two toggle actions of the user on the same task have both run to
\* their end, in whatever order their requests and responses went, the
\* completed flag of the task on the server is what it was before the two.
C30_TwoTogglesRestoreFlag ==
    /\ TogglesSoFar = 2
    /\ \A f \in FlowIds : flows[f].pc = "idle"
    => \A t \in tasks : t.id = ToggledTask.id => t.completed = ToggledTask.completed

====
